---- MODULE Spec2Model ----
(***************************************************************************)
(* Model of the Snapshotter MCP server (main.py, mcp_models.py).           *)
(*                                                                         *)
(* Every tool handler opens an HTTP client, builds one URL from its        *)
(* arguments, issues one GET, checks the status (raise_for_status), parses *)
(* the body (response.json) and validates the parsed value against the     *)
(* tool's pydantic model (model_validate).  The upstream API is the        *)
(* environment: it answers a request with a status and a body, or the      *)
(* transport fails.                                                        *)
(*                                                                         *)
(* Spec is one invocation after another, over all tools; ConcSpec is       *)
(* several invocations in progress at once; MainSpec is process start (the *)
(* command-line scan and mcp.run).                                         *)
(***************************************************************************)
EXTENDS Integers, Sequences, FiniteSets, TLC

\* Largest block number / epoch id the callers of the model pass (0..MaxBlock).
MaxBlock == 2

(***************************************************************************)
(* Optional values: Optional[T] is <<>> for None and <<v>> for a value.    *)
(***************************************************************************)
None == <<>>
Some(v) == <<v>>
IsNone(o) == o = <<>>
Get(o) == o[1]

\* Python truthiness of an Optional[int] argument: None and 0 are falsy.
TruthyInt(o) == ~IsNone(o) /\ Get(o) # 0
\* Python truthiness of an Optional[str] argument: None and "" are falsy.
TruthyStr(o) == ~IsNone(o) /\ Get(o) # ""

\* str(n) as an f-string formats an int.
FormatInt(n) == ToString(n)

(***************************************************************************)
(* JSON documents, as the upstream sends them (the text of a body).        *)
(* A number literal keeps its spelling: whole part w and an optional       *)
(* fraction digit fr (1 is DNum(1, None), 1.0 is DNum(1, Some(0))).        *)
(* DInvalid is a body that is not JSON at all.                             *)
(***************************************************************************)
DNum(w, fr) == [j |-> "num", w |-> w, fr |-> fr]
DInt(w) == DNum(w, None)
DFlt(w, d) == DNum(w, Some(d))
DStr(s) == [j |-> "str", s |-> s]
DNull == [j |-> "null"]
DArr(a) == [j |-> "arr", a |-> a]
DObj(m) == [j |-> "obj", m |-> m]
DInvalid == [j |-> "invalid"]
NoFields == [k \in {} |-> DNull]

(***************************************************************************)
(* Python values: what response.json() returns and what validation yields. *)
(* A float is kept in tenths (PFloat(15) is 1.5).                          *)
(***************************************************************************)
PNone == [t |-> "None"]
PInt(i) == [t |-> "int", i |-> i]
PFloat(f) == [t |-> "float", f |-> f]
PBool(b) == [t |-> "bool", b |-> b]
PStr(s) == [t |-> "str", s |-> s]
PList(l) == [t |-> "list", l |-> l]
PDict(d) == [t |-> "dict", d |-> d]
PModel(cls, o) == [t |-> "model", cls |-> cls, o |-> o]

\* json.loads on a valid document: a literal without a fraction is an int,
\* one with a fraction is a float.
RECURSIVE JsonLoads(_)
JsonLoads(doc) ==
  CASE doc.j = "num" -> IF IsNone(doc.fr) THEN PInt(doc.w)
                        ELSE PFloat(10 * doc.w + Get(doc.fr))
    [] doc.j = "str" -> PStr(doc.s)
    [] doc.j = "null" -> PNone
    [] doc.j = "arr" -> PList([i \in DOMAIN doc.a |-> JsonLoads(doc.a[i])])
    [] doc.j = "obj" -> PDict([k \in DOMAIN doc.m |-> JsonLoads(doc.m[k])])

\* A document is JSON unless it is, or contains, invalid text.
IsJson(doc) == doc.j # "invalid"

(***************************************************************************)
(* Schema registry (mcp_models.py).  A type is int, float, str, Any,       *)
(* Optional[T], List[T], Dict[str, T] or a BaseModel class.                *)
(***************************************************************************)
TInt == [k |-> "int"]
TFloat == [k |-> "float"]
TStr == [k |-> "str"]
TAny == [k |-> "any"]
TOpt(of) == [k |-> "opt", of |-> of]
TList(of) == [k |-> "list", of |-> of]
TDict(of) == [k |-> "dict", of |-> of]
TModel(cls) == [k |-> "model", cls |-> cls]

\* An annotated attribute of a class body: `name: ty` (dflt = FALSE) or
\* `name: ty = None` (dflt = TRUE).
Req(ty) == [ty |-> ty, dflt |-> FALSE]
Dflt(ty) == [ty |-> ty, dflt |-> TRUE]

TokenMetadata ==
  [address |-> Dflt(TOpt(TStr)), name |-> Req(TStr), symbol |-> Req(TStr),
   decimals |-> Req(TInt)]

Epoch ==
  [begin |-> Req(TInt), end |-> Req(TInt), epochId |-> Dflt(TOpt(TInt))]

Log ==
  [_score |-> Req(TInt), address |-> Req(TStr), blockNumber |-> Req(TInt),
   data |-> Req(TStr), eventName |-> Req(TStr), filterName |-> Req(TStr),
   logIndex |-> Req(TInt), topics |-> Req(TList(TStr)),
   transactionHash |-> Req(TStr), transactionIndex |-> Req(TInt)]

TradeData ==
  [amount0 |-> Req(TFloat), amount1 |-> Req(TFloat),
   block_timestamp |-> Req(TInt), calculated_eth_price |-> Req(TFloat),
   calculated_token0_amount |-> Req(TFloat),
   calculated_token1_amount |-> Req(TFloat),
   calculated_trade_amount_usd |-> Req(TFloat), liquidity |-> Req(TInt),
   recipient |-> Req(TStr), sender |-> Req(TStr), sqrtPriceX96 |-> Req(TInt),
   tick |-> Req(TInt)]

Trade ==
  [tradeType |-> Req(TStr), log |-> Req(TModel("Log")),
   data |-> Req(TModel("TradeData"))]

Pagination ==
  [page |-> Req(TInt), size |-> Req(TInt), total |-> Req(TInt),
   total_pages |-> Req(TInt)]

PoolMetadata ==
  [address |-> Req(TStr), token0 |-> Req(TModel("TokenMetadata")),
   token1 |-> Req(TModel("TokenMetadata")), fee |-> Req(TInt),
   factory |-> Req(TStr)]

GetTokenPoolsResponse == [pools |-> Req(TDict(TModel("PoolMetadata")))]

GetEthPriceResponse ==
  [epoch |-> Req(TModel("Epoch")), ethPrice |-> Req(TDict(TFloat)),
   previousSnapshots |-> Req(TList(TAny))]

GetBaseSnapshotResponse ==
  [address |-> Req(TStr), epoch |-> Req(TModel("Epoch")),
   timestamps |-> Req(TDict(TInt)), token0 |-> Req(TStr), token1 |-> Req(TStr),
   token0Reserves |-> Req(TDict(TFloat)), token1Reserves |-> Req(TDict(TFloat)),
   token0ReservesUSD |-> Req(TDict(TFloat)),
   token1ReservesUSD |-> Req(TDict(TFloat)),
   token0Prices |-> Req(TDict(TFloat)), token1Prices |-> Req(TDict(TFloat)),
   token0PricesUSD |-> Req(TDict(TFloat)),
   token1PricesUSD |-> Req(TDict(TFloat)),
   totalTrade |-> Req(TFloat), totalTradeMintBurn |-> Req(TFloat),
   totalFee |-> Req(TFloat), token0MintBurnVolume |-> Req(TFloat),
   token1MintBurnVolume |-> Req(TFloat),
   token0MintBurnVolumeUSD |-> Req(TFloat),
   token1MintBurnVolumeUSD |-> Req(TFloat),
   token0TradeVolume |-> Req(TFloat), token1TradeVolume |-> Req(TFloat),
   token0TradeVolumeUSD |-> Req(TFloat), token1TradeVolumeUSD |-> Req(TFloat),
   previousSnapshots |-> Req(TList(TAny))]

GetTradesSnapshotResponse ==
  [address |-> Req(TStr), epoch |-> Req(TModel("Epoch")),
   trades |-> Req(TList(TModel("Trade"))),
   previousSnapshots |-> Req(TList(TAny))]

GetAllTradesSnapshotResponse ==
  [epoch |-> Req(TModel("Epoch")),
   tradeData |-> Req(TDict(TModel("GetTradesSnapshotResponse"))),
   previousSnapshots |-> Req(TList(TAny))]

GetTradeVolumeAggResponse ==
  [totalTradeVolume |-> Req(TFloat), timeInterval |-> Req(TInt)]

PriceSeriesEntry ==
  [blockNumber |-> Req(TInt), price |-> Req(TFloat), timestamp |-> Req(TInt)]

GetTokenPriceSeriesResponse ==
  [priceSeries |-> Req(TList(TModel("PriceSeriesEntry"))),
   timeInterval |-> Req(TInt)]

ActiveToken ==
  [token_address |-> Req(TStr), frequency |-> Req(TInt),
   metadata |-> Req(TModel("TokenMetadata"))]

GetDailyActiveTokensResponse ==
  [active_tokens |-> Req(TList(TModel("ActiveToken"))),
   pagination |-> Req(TModel("Pagination"))]

ActivePool ==
  [pool_address |-> Req(TStr), frequency |-> Req(TInt),
   metadata |-> Req(TModel("PoolMetadata"))]

GetDailyActivePoolsResponse ==
  [active_pools |-> Req(TList(TModel("ActivePool"))),
   pagination |-> Req(TModel("Pagination"))]

HealthCheckResponse == [status |-> Req(TStr)]

\* Mutant of GetCurrentEpochDataResponse: the epoch record of the snapshot
\* responses used for /current_epoch too.
GetCurrentEpochDataResponse_as_Epoch ==
  [begin |-> Req(TInt), end |-> Req(TInt), epochId |-> Dflt(TOpt(TInt))]

GetCurrentEpochDataResponse ==
  [begin |-> Req(TInt), end |-> Req(TInt), epochId |-> Req(TInt)]

\* Mutant of GetEpochInfoResponse: the block number field in camel case.
GetEpochInfoResponse_camelCase ==
  [timestamp |-> Req(TInt), blockNumber |-> Req(TInt), epochEnd |-> Req(TInt)]

GetEpochInfoResponse ==
  [timestamp |-> Req(TInt), blocknumber |-> Req(TInt), epochEnd |-> Req(TInt)]

GetProjectLastFinalizedEpochInfoResponse ==
  [epochId |-> Req(TInt), timestamp |-> Req(TInt), blocknumber |-> Req(TInt),
   epochEnd |-> Req(TInt)]

\* GetDataForProjectIdEpochIdResponse declares the attributes of
\* GetBaseSnapshotResponse again, in alphabetical order.
GetDataForProjectIdEpochIdResponse ==
  [address |-> Req(TStr), epoch |-> Req(TModel("Epoch")),
   previousSnapshots |-> Req(TList(TAny)), timestamps |-> Req(TDict(TInt)),
   token0 |-> Req(TStr), token0MintBurnVolume |-> Req(TFloat),
   token0MintBurnVolumeUSD |-> Req(TFloat),
   token0Prices |-> Req(TDict(TFloat)), token0PricesUSD |-> Req(TDict(TFloat)),
   token0Reserves |-> Req(TDict(TFloat)),
   token0ReservesUSD |-> Req(TDict(TFloat)),
   token0TradeVolume |-> Req(TFloat), token0TradeVolumeUSD |-> Req(TFloat),
   token1 |-> Req(TStr), token1MintBurnVolume |-> Req(TFloat),
   token1MintBurnVolumeUSD |-> Req(TFloat),
   token1Prices |-> Req(TDict(TFloat)), token1PricesUSD |-> Req(TDict(TFloat)),
   token1Reserves |-> Req(TDict(TFloat)),
   token1ReservesUSD |-> Req(TDict(TFloat)),
   token1TradeVolume |-> Req(TFloat), token1TradeVolumeUSD |-> Req(TFloat),
   totalFee |-> Req(TFloat), totalTrade |-> Req(TFloat),
   totalTradeMintBurn |-> Req(TFloat)]

\* The RootModel classes: the type of their `root`.
GetTokenBaseSnapshotsResponse == TDict(TAny)
GetTokenPriceAllResponse == TDict(TOpt(TFloat))
GetPoolTradesResponse == TList(TDict(TAny))
GetFinalizedCidForProjectIdEpochIdResponse == TStr

\* The annotated attributes of a BaseModel class, by class name.
Annotations(cls) ==
  CASE cls = "TokenMetadata" -> TokenMetadata
    [] cls = "Epoch" -> Epoch
    [] cls = "Log" -> Log
    [] cls = "TradeData" -> TradeData
    [] cls = "Trade" -> Trade
    [] cls = "Pagination" -> Pagination
    [] cls = "PoolMetadata" -> PoolMetadata
    [] cls = "GetTokenPoolsResponse" -> GetTokenPoolsResponse
    [] cls = "GetEthPriceResponse" -> GetEthPriceResponse
    [] cls = "GetBaseSnapshotResponse" -> GetBaseSnapshotResponse
    [] cls = "GetTradesSnapshotResponse" -> GetTradesSnapshotResponse
    [] cls = "GetAllTradesSnapshotResponse" -> GetAllTradesSnapshotResponse
    [] cls = "GetTradeVolumeAggResponse" -> GetTradeVolumeAggResponse
    [] cls = "PriceSeriesEntry" -> PriceSeriesEntry
    [] cls = "GetTokenPriceSeriesResponse" -> GetTokenPriceSeriesResponse
    [] cls = "ActiveToken" -> ActiveToken
    [] cls = "GetDailyActiveTokensResponse" -> GetDailyActiveTokensResponse
    [] cls = "ActivePool" -> ActivePool
    [] cls = "GetDailyActivePoolsResponse" -> GetDailyActivePoolsResponse
    [] cls = "HealthCheckResponse" -> HealthCheckResponse
    [] cls = "GetCurrentEpochDataResponse" -> GetCurrentEpochDataResponse
    [] cls = "GetEpochInfoResponse" -> GetEpochInfoResponse
    [] cls = "GetProjectLastFinalizedEpochInfoResponse" ->
         GetProjectLastFinalizedEpochInfoResponse
    [] cls = "GetDataForProjectIdEpochIdResponse" ->
         GetDataForProjectIdEpochIdResponse

ClassNames ==
  {"TokenMetadata", "Epoch", "Log", "TradeData", "Trade", "Pagination",
   "PoolMetadata", "GetTokenPoolsResponse", "GetEthPriceResponse",
   "GetBaseSnapshotResponse", "GetTradesSnapshotResponse",
   "GetAllTradesSnapshotResponse", "GetTradeVolumeAggResponse",
   "PriceSeriesEntry", "GetTokenPriceSeriesResponse", "ActiveToken",
   "GetDailyActiveTokensResponse", "ActivePool",
   "GetDailyActivePoolsResponse", "HealthCheckResponse",
   "GetCurrentEpochDataResponse", "GetEpochInfoResponse",
   "GetProjectLastFinalizedEpochInfoResponse",
   "GetDataForProjectIdEpochIdResponse"}

(***************************************************************************)
(* pydantic (v2, the version that has RootModel), as the models use it:    *)
(* default configuration, so lax coercion and extra = "ignore".            *)
(***************************************************************************)

\* The words an attribute name can continue with after a leading underscore.
NameStems == {"score"} \cup UNION {DOMAIN Annotations(c) : c \in ClassNames}

\* An annotated name that starts with an underscore is a private attribute of
\* the class, not a field: it is neither read from the input nor validated.
IsPrivateName(n) == \E s \in NameStems : n = "_" \o s

\* BaseModel.model_fields: the fields validation knows.
ModelFields(cls) == {n \in DOMAIN Annotations(cls) : ~IsPrivateName(n)}

\* The decimal digit strings lax mode parses as numbers.
ParseInt(s) ==
  IF \E n \in 0..9 : ToString(n) = s
  THEN Some(CHOOSE n \in 0..9 : ToString(n) = s)
  ELSE None

Ok(val) == [errs |-> {}, val |-> val]
Err(loc) == [errs |-> {loc}, val |-> PNone]

\* int: an int, a float without fraction, a digit string.
ValidateInt(v, loc) ==
  CASE v.t = "int" -> Ok(v)
    [] v.t = "float" -> IF v.f % 10 = 0 THEN Ok(PInt(v.f \div 10)) ELSE Err(loc)
    [] v.t = "str" -> IF IsNone(ParseInt(v.s)) THEN Err(loc)
                      ELSE Ok(PInt(Get(ParseInt(v.s))))
    [] OTHER -> Err(loc)

\* float: a float, an int (converted), a digit string.
ValidateFloat(v, loc) ==
  CASE v.t = "float" -> Ok(v)
    [] v.t = "int" -> Ok(PFloat(10 * v.i))
    [] v.t = "str" -> IF IsNone(ParseInt(v.s)) THEN Err(loc)
                      ELSE Ok(PFloat(10 * Get(ParseInt(v.s))))
    [] OTHER -> Err(loc)

\* Mutant of ValidateStr: numbers are coerced to str (coerce_numbers_to_str).
ValidateStr_coerce_numbers(v, loc) ==
  CASE v.t = "str" -> Ok(v)
    [] v.t = "int" -> Ok(PStr(ToString(v.i)))
    [] v.t = "float" -> Ok(PStr(ToString(v.f \div 10) \o "." \o ToString(v.f % 10)))
    [] OTHER -> Err(loc)

\* str: only a str (numbers are not coerced to str).
ValidateStr(v, loc) == IF v.t = "str" THEN Ok(v) ELSE Err(loc)

\* Mutant of MissingField: a field is required whether or not it has a
\* default (as for `address: Optional[str]` written without `= None`).
MissingField_required(attr, loc) == Err(loc)

\* A field absent from the input: its default (None) if it has one, else the
\* error "missing" at the field's location.
MissingField(attr, loc) == IF attr.dflt THEN Ok(PNone) ELSE Err(loc)

\* The scalar types.
ValidateScalar(ty, v, loc) ==
  CASE ty.k = "int" -> ValidateInt(v, loc)
    [] ty.k = "float" -> ValidateFloat(v, loc)
    [] ty.k = "str" -> ValidateStr(v, loc)
    [] ty.k = "any" -> Ok(v)

IsScalar(ty) == ty.k \in {"int", "float", "str", "any"}

\* Mutant of ExtraErrors: a model configured with extra = "forbid".
ExtraErrors_forbid(cls, v, loc) ==
  {Append(loc, key) : key \in DOMAIN v.d \ ModelFields(cls)}

\* Input keys that are no field of the model: the classes set no
\* model_config, so extra = "ignore" and such keys are no error.
ExtraErrors(cls, v, loc) == {}

RECURSIVE ValidationErrors(_, _, _)

\* Mutant of DictKeys: a mapping validator that leaves out the entries that
\* fail and keeps the others.
DictKeys_valid_only(ty, v) ==
  {key \in DOMAIN v.d : ValidationErrors(ty.of, v.d[key], <<>>) = {}}

\* Dict[str, T]: every entry of the input is validated, and every entry is
\* in the result.
DictKeys(ty, v) == DOMAIN v.d

\* Validation of the Python value v against type ty, in its two results.
\* ValidationErrors: the locations (paths of field names, keys and indices)
\* of the errors; loc is the location of v itself.
ValidationErrors(ty, v, loc) ==
  CASE IsScalar(ty) -> ValidateScalar(ty, v, loc).errs
    [] ty.k = "opt" ->
         IF v.t = "None" THEN {} ELSE ValidationErrors(ty.of, v, loc)
    [] ty.k = "list" ->
         IF v.t # "list" THEN {loc}
         ELSE UNION {ValidationErrors(ty.of, v.l[i], Append(loc, ToString(i - 1))) :
                       i \in DOMAIN v.l}
    [] ty.k = "dict" ->
         IF v.t # "dict" THEN {loc}
         ELSE UNION {ValidationErrors(ty.of, v.d[key], Append(loc, key)) :
                       key \in DictKeys(ty, v)}
    [] ty.k = "model" ->
         IF v.t # "dict" THEN {loc}
         ELSE UNION {IF f \in DOMAIN v.d
                     THEN ValidationErrors(Annotations(ty.cls)[f].ty, v.d[f],
                                           Append(loc, f))
                     ELSE MissingField(Annotations(ty.cls)[f], Append(loc, f)).errs :
                       f \in ModelFields(ty.cls)}
              \cup ExtraErrors(ty.cls, v, loc)

\* Validated: the value validation yields when there are no errors.  Input
\* keys that are not fields of the model are left out (extra = "ignore").
RECURSIVE Validated(_, _)
Validated(ty, v) ==
  CASE IsScalar(ty) -> ValidateScalar(ty, v, <<>>).val
    [] ty.k = "opt" -> IF v.t = "None" THEN PNone ELSE Validated(ty.of, v)
    [] ty.k = "list" -> PList([i \in DOMAIN v.l |-> Validated(ty.of, v.l[i])])
    [] ty.k = "dict" ->
         PDict([key \in DictKeys(ty, v) |-> Validated(ty.of, v.d[key])])
    [] ty.k = "model" ->
         PModel(ty.cls,
                [f \in ModelFields(ty.cls) |->
                   IF f \in DOMAIN v.d
                   THEN Validated(Annotations(ty.cls)[f].ty, v.d[f])
                   ELSE MissingField(Annotations(ty.cls)[f], <<>>).val])

\* Mutant of IsInstance: validation that takes mappings only (an instance is
\* no valid input, as it is for another class than its own).
IsInstance_mappings_only(ty, data) == FALSE

\* isinstance(data, cls): data is an instance of the model class validated
\* against.  The classes set no model_config, so revalidate_instances is
\* "never" and validation returns such an instance as it is.
IsInstance(ty, data) == ty.k = "model" /\ data.t = "model" /\ data.cls = ty.cls

\* Model.model_validate(data): the validated value, or ValidationError with
\* the locations of all errors.  A RootModel instance is held as its root.
model_validate(ty, data) ==
  IF IsInstance(ty, data) THEN Ok(data)
  ELSE LET errs == ValidationErrors(ty, data, <<>>)
       IN IF errs = {} THEN Ok(Validated(ty, data))
          ELSE [errs |-> errs, val |-> PNone]

(***************************************************************************)
(* Tool dispatcher (main.py).                                              *)
(***************************************************************************)

\* os.getenv(name, default): the variable's value if it is set.
Getenv(env, default) == IF IsNone(env) THEN default ELSE Get(env)

\* "/".join(parts).
RECURSIVE JoinSlash(_)
JoinSlash(parts) ==
  IF parts = <<>> THEN ""
  ELSE IF Len(parts) = 1 THEN parts[1]
  ELSE parts[1] \o "/" \o JoinSlash(Tail(parts))

\* s.split("/"), for the argument strings that contain "/" (any other
\* string is one component).
split(s) ==
  CASE s = "0xP/1" -> <<"0xP", "1">>
    [] s = "../tradeVolumeAllPools/0xT" -> <<"..", "tradeVolumeAllPools", "0xT">>
    [] s = "../../cid/1/1" -> <<"..", "..", "cid", "1", "1">>
    [] OTHER -> <<s>>

\* The components of the path "/" + "/".join(pieces), split at every "/".
RECURSIVE Components(_)
Components(pieces) ==
  IF pieces = <<>> THEN <<>> ELSE split(pieces[1]) \o Components(Tail(pieces))

\* What the body of `async with httpx.AsyncClient() as client:` does up to
\* and including its client.get: one GET of the URL its f-string gives (with
\* query parameters, for the two paginated tools), or an exception raised
\* before any request.  The f-string f"{base}/a/{x}/{y}" is base followed by
\* the pieces "a", x, y, a "/" before each; `path` keeps the pieces.  params
\* is the dict passed as params=, as the sequence of its items in insertion
\* order.
HttpGet(base, pieces) ==
  [raised |-> FALSE, url |-> base \o "/" \o JoinSlash(pieces), params |-> None,
   base |-> base, path |-> pieces]
HttpGetParams(base, pieces, params) ==
  [raised |-> FALSE, url |-> base \o "/" \o JoinSlash(pieces),
   params |-> Some(params), base |-> base, path |-> pieces]
RaiseValueError ==
  [raised |-> TRUE, url |-> "", params |-> None, base |-> "", path |-> <<>>]

\* Mutant of primitive_value_to_str: Python's str() of the value.
primitive_value_to_str_python(value) ==
  CASE value.t = "bool" -> IF value.b THEN "True" ELSE "False"
    [] value.t = "None" -> "None"
    [] value.t = "int" -> ToString(value.i)
    [] value.t = "str" -> value.s

\* httpx's primitive_value_to_str: how a query parameter value is written.
primitive_value_to_str(value) ==
  CASE value.t = "bool" -> IF value.b THEN "true" ELSE "false"
    [] value.t = "None" -> ""
    [] value.t = "int" -> ToString(value.i)
    [] value.t = "str" -> value.s

\* httpx's urlencode of the items of a params dict: k=v joined by "&".
RECURSIVE urlencode(_)
urlencode(items) ==
  IF items = <<>> THEN ""
  ELSE items[1][1] \o "=" \o primitive_value_to_str(items[1][2])
       \o (IF Len(items) > 1 THEN "&" \o urlencode(Tail(items)) ELSE "")

\* httpx's normalize_path (RFC 3986, 5.2.4): the components of the path with
\* "." components dropped and each ".." taking back the component before it.
RECURSIVE remove_dot_segments(_, _)
remove_dot_segments(components, output) ==
  IF components = <<>> THEN output
  ELSE IF Head(components) = "."
  THEN remove_dot_segments(Tail(components), output)
  ELSE IF Head(components) = ".."
  THEN remove_dot_segments(Tail(components),
         IF output # <<>> /\ output # <<"">>
         THEN SubSeq(output, 1, Len(output) - 1) ELSE output)
  ELSE remove_dot_segments(Tail(components), Append(output, Head(components)))

normalize_path(path) == remove_dot_segments(<<"">> \o path, <<>>)

\* httpx.URL(url) of the URL a helper built: the URL with its path
\* normalized, which is the URL the request goes to.
URL(r) == r.base \o JoinSlash(normalize_path(Components(r.path)))

\* The URL httpx requests for client.get(url, params=params): the params
\* become the query of the URL.
merge_url(url, params) ==
  IF IsNone(params) THEN url ELSE url \o "?" \o urlencode(Get(params))

_get_pool_metadata(base, pool_address) ==
  HttpGet(base, <<"pool", pool_address, "metadata">>)

_get_token_pools(base, token_address) ==
  HttpGet(base, <<"token", token_address, "pools">>)

\* Mutant of _get_ethprice: the truthiness test of the sibling helpers.
_get_ethprice_truthy(base, block_number) ==
  IF TruthyInt(block_number)
  THEN HttpGet(base, <<"ethPrice", FormatInt(Get(block_number))>>)
  ELSE HttpGet(base, <<"ethPrice">>)

_get_ethprice(base, block_number) ==
  IF IsNone(block_number)
  THEN HttpGet(base, <<"ethPrice">>)
  ELSE HttpGet(base, <<"ethPrice", FormatInt(Get(block_number))>>)

\* Mutant of _get_token_price_pool: a block number alone gets a URL too.
_get_token_price_pool_block_alone(base, token_address, pool_address, block_number) ==
  IF TruthyStr(pool_address) /\ TruthyInt(block_number)
  THEN HttpGet(base, <<"token", "price", token_address, Get(pool_address),
                       FormatInt(Get(block_number))>>)
  ELSE IF TruthyStr(pool_address)
  THEN HttpGet(base, <<"token", "price", token_address, Get(pool_address)>>)
  ELSE IF TruthyInt(block_number)
  THEN HttpGet(base, <<"token", "price", token_address,
                       FormatInt(Get(block_number))>>)
  ELSE RaiseValueError

_get_token_price_pool(base, token_address, pool_address, block_number) ==
  IF TruthyStr(pool_address) /\ TruthyInt(block_number)
  THEN HttpGet(base, <<"token", "price", token_address, Get(pool_address),
                       FormatInt(Get(block_number))>>)
  ELSE IF TruthyStr(pool_address)
  THEN HttpGet(base, <<"token", "price", token_address, Get(pool_address)>>)
  ELSE RaiseValueError

_get_token_base_snapshots(base, token_address) ==
  HttpGet(base, <<"snapshot", "base_all_pools", token_address>>)

_get_base_snapshot(base, pool_address, block_number) ==
  IF TruthyInt(block_number)
  THEN HttpGet(base, <<"snapshot", "base", pool_address,
                       FormatInt(Get(block_number))>>)
  ELSE HttpGet(base, <<"snapshot", "base", pool_address>>)

_get_trades_snapshot(base, pool_address, block_number) ==
  IF TruthyInt(block_number)
  THEN HttpGet(base, <<"snapshot", "trades", pool_address,
                       FormatInt(Get(block_number))>>)
  ELSE HttpGet(base, <<"snapshot", "trades", pool_address>>)

_get_all_trades_snapshot(base, block_number) ==
  IF TruthyInt(block_number)
  THEN HttpGet(base, <<"snapshot", "allTrades", FormatInt(Get(block_number))>>)
  ELSE HttpGet(base, <<"snapshot", "allTrades">>)

_get_token_price_all(base, token_address, block_number) ==
  IF TruthyInt(block_number)
  THEN HttpGet(base, <<"tokenPrices", "all", token_address,
                       FormatInt(Get(block_number))>>)
  ELSE HttpGet(base, <<"tokenPrices", "all", token_address>>)

_get_trade_volume_agg_all_pools(base, token_address, time_interval) ==
  HttpGet(base, <<"tradeVolumeAllPools", token_address, FormatInt(time_interval)>>)

_get_trade_volume_agg(base, pool_address, time_interval) ==
  HttpGet(base, <<"tradeVolume", pool_address, FormatInt(time_interval)>>)

_get_pool_trades(base, pool_address, start_timestamp, end_timestamp) ==
  HttpGet(base, <<"poolTrades", pool_address, FormatInt(start_timestamp),
                  FormatInt(end_timestamp)>>)

_get_token_price_series(base, token_address, pool_address, time_interval, step_seconds) ==
  HttpGet(base, <<"timeSeries", token_address, pool_address,
                  FormatInt(time_interval), FormatInt(step_seconds)>>)

_get_daily_active_tokens(base, page, size, metadata, time_interval) ==
  HttpGetParams(base, <<"dailyActiveTokens">>,
                <<<<"page", PInt(page)>>, <<"size", PInt(size)>>,
                  <<"metadata", PBool(metadata)>>,
                  <<"time_interval", PInt(time_interval)>>>>)

_get_daily_active_pools(base, page, size, metadata, time_interval) ==
  HttpGetParams(base, <<"dailyActivePools">>,
                <<<<"page", PInt(page)>>, <<"size", PInt(size)>>,
                  <<"metadata", PBool(metadata)>>,
                  <<"time_interval", PInt(time_interval)>>>>)

\* Mutant of _health_check: the default host written into the URL.
_health_check_hardcoded(base) == HttpGet("https://bds-api.powerloom.io", <<"health">>)

_health_check(base) == HttpGet(base, <<"health">>)

_get_current_epoch_data(base) == HttpGet(base, <<"current_epoch">>)

_get_epoch_info(base, epoch_id) ==
  HttpGet(base, <<"epoch", FormatInt(epoch_id)>>)

_get_project_last_finalized_epoch_info(base, project_id) ==
  HttpGet(base, <<"last_finalized_epoch", project_id>>)

\* Mutant of _get_data_for_project_id_epoch_id: the two segments in the
\* order of the parameters.
_get_data_for_project_id_epoch_id_swapped(base, project_id, epoch_id) ==
  HttpGet(base, <<"data", project_id, FormatInt(epoch_id), "">>)

_get_data_for_project_id_epoch_id(base, project_id, epoch_id) ==
  HttpGet(base, <<"data", FormatInt(epoch_id), project_id, "">>)

_get_finalized_cid_for_project_id_epoch_id(base, project_id, epoch_id) ==
  HttpGet(base, <<"cid", FormatInt(epoch_id), project_id, "">>)

\* A parameter with a default value: the default when the caller omits it.
Default(arg, dflt) == IF IsNone(arg) THEN dflt ELSE Get(arg)

\* The registered tools (the @mcp.tool functions), by name.
Tools ==
  {"get_pool_metadata", "get_token_pools", "get_ethprice",
   "get_token_price_pool", "get_token_base_snapshots", "get_base_snapshot",
   "get_trades_snapshot", "get_all_trades_snapshot", "get_token_price_all",
   "get_trade_volume_agg_all_pools", "get_trade_volume_agg",
   "get_pool_trades", "get_token_price_series", "get_daily_active_tokens",
   "get_daily_active_pools", "health_check", "get_current_epoch_data",
   "get_epoch_info", "get_project_last_finalized_epoch_info",
   "get_data_for_project_id_epoch_id",
   "get_finalized_cid_for_project_id_epoch_id"}

\* A helper called with the arguments a, by parameter name, which runs up to
\* its GET.  An argument with a default that the caller omits is None in a
\* and takes the default of the helper's signature.
CallHelper(tool, a, base) ==
  CASE tool = "get_pool_metadata" -> _get_pool_metadata(base, a.pool_address)
    [] tool = "get_token_pools" -> _get_token_pools(base, a.token_address)
    [] tool = "get_ethprice" -> _get_ethprice(base, a.block_number)
    [] tool = "get_token_price_pool" ->
         _get_token_price_pool(base, a.token_address, a.pool_address, a.block_number)
    [] tool = "get_token_base_snapshots" ->
         _get_token_base_snapshots(base, a.token_address)
    [] tool = "get_base_snapshot" ->
         _get_base_snapshot(base, a.pool_address, a.block_number)
    [] tool = "get_trades_snapshot" ->
         _get_trades_snapshot(base, a.pool_address, a.block_number)
    [] tool = "get_all_trades_snapshot" ->
         _get_all_trades_snapshot(base, a.block_number)
    [] tool = "get_token_price_all" ->
         _get_token_price_all(base, a.token_address, a.block_number)
    [] tool = "get_trade_volume_agg_all_pools" ->
         _get_trade_volume_agg_all_pools(base, a.token_address, a.time_interval)
    [] tool = "get_trade_volume_agg" ->
         _get_trade_volume_agg(base, a.pool_address, a.time_interval)
    [] tool = "get_pool_trades" ->
         _get_pool_trades(base, a.pool_address, a.start_timestamp, a.end_timestamp)
    [] tool = "get_token_price_series" ->
         _get_token_price_series(base, a.token_address, a.pool_address,
                                 a.time_interval, a.step_seconds)
    [] tool = "get_daily_active_tokens" ->
         _get_daily_active_tokens(base, Default(a.page, 1), Default(a.size, 50),
                                  Default(a.metadata, FALSE),
                                  Default(a.time_interval, 86400))
    [] tool = "get_daily_active_pools" ->
         _get_daily_active_pools(base, Default(a.page, 1), Default(a.size, 50),
                                 Default(a.metadata, FALSE),
                                 Default(a.time_interval, 86400))
    [] tool = "health_check" -> _health_check(base)
    [] tool = "get_current_epoch_data" -> _get_current_epoch_data(base)
    [] tool = "get_epoch_info" -> _get_epoch_info(base, a.epoch_id)
    [] tool = "get_project_last_finalized_epoch_info" ->
         _get_project_last_finalized_epoch_info(base, a.project_id)
    [] tool = "get_data_for_project_id_epoch_id" ->
         _get_data_for_project_id_epoch_id(base, a.project_id, a.epoch_id)
    [] tool = "get_finalized_cid_for_project_id_epoch_id" ->
         _get_finalized_cid_for_project_id_epoch_id(base, a.project_id, a.epoch_id)

\* The parameters of a helper, in the order of its signature.
HelperParameters(tool) ==
  CASE tool = "get_pool_metadata" -> <<"pool_address">>
    [] tool = "get_token_pools" -> <<"token_address">>
    [] tool = "get_ethprice" -> <<"block_number">>
    [] tool = "get_token_price_pool" ->
         <<"token_address", "pool_address", "block_number">>
    [] tool = "get_token_base_snapshots" -> <<"token_address">>
    [] tool = "get_base_snapshot" -> <<"pool_address", "block_number">>
    [] tool = "get_trades_snapshot" -> <<"pool_address", "block_number">>
    [] tool = "get_all_trades_snapshot" -> <<"block_number">>
    [] tool = "get_token_price_all" -> <<"token_address", "block_number">>
    [] tool = "get_trade_volume_agg_all_pools" -> <<"token_address", "time_interval">>
    [] tool = "get_trade_volume_agg" -> <<"pool_address", "time_interval">>
    [] tool = "get_pool_trades" ->
         <<"pool_address", "start_timestamp", "end_timestamp">>
    [] tool = "get_token_price_series" ->
         <<"token_address", "pool_address", "time_interval", "step_seconds">>
    [] tool \in {"get_daily_active_tokens", "get_daily_active_pools"} ->
         <<"page", "size", "metadata", "time_interval">>
    [] tool \in {"health_check", "get_current_epoch_data"} -> <<>>
    [] tool = "get_epoch_info" -> <<"epoch_id">>
    [] tool = "get_project_last_finalized_epoch_info" -> <<"project_id">>
    [] tool \in {"get_data_for_project_id_epoch_id",
                 "get_finalized_cid_for_project_id_epoch_id"} ->
         <<"project_id", "epoch_id">>

\* Mutant of Passed: the price series tool passes the pool address first.
Passed_swapped(tool) ==
  IF tool = "get_token_price_series"
  THEN <<"pool_address", "token_address", "time_interval", "step_seconds">>
  ELSE HelperParameters(tool)

\* The parameters of a tool that its body passes to the helper, in the order
\* of the call `return await _helper(...)`, which passes them by position.
Passed(tool) ==
  CASE tool = "get_pool_metadata" -> <<"pool_address">>
    [] tool = "get_token_pools" -> <<"token_address">>
    [] tool = "get_ethprice" -> <<"block_number">>
    [] tool = "get_token_price_pool" ->
         <<"token_address", "pool_address", "block_number">>
    [] tool = "get_token_base_snapshots" -> <<"token_address">>
    [] tool = "get_base_snapshot" -> <<"pool_address", "block_number">>
    [] tool = "get_trades_snapshot" -> <<"pool_address", "block_number">>
    [] tool = "get_all_trades_snapshot" -> <<"block_number">>
    [] tool = "get_token_price_all" -> <<"token_address", "block_number">>
    [] tool = "get_trade_volume_agg_all_pools" -> <<"token_address", "time_interval">>
    [] tool = "get_trade_volume_agg" -> <<"pool_address", "time_interval">>
    [] tool = "get_pool_trades" ->
         <<"pool_address", "start_timestamp", "end_timestamp">>
    [] tool = "get_token_price_series" ->
         <<"token_address", "pool_address", "time_interval", "step_seconds">>
    [] tool \in {"get_daily_active_tokens", "get_daily_active_pools"} ->
         <<"page", "size", "metadata", "time_interval">>
    [] tool \in {"health_check", "get_current_epoch_data"} -> <<>>
    [] tool = "get_epoch_info" -> <<"epoch_id">>
    [] tool = "get_project_last_finalized_epoch_info" -> <<"project_id">>
    [] tool \in {"get_data_for_project_id_epoch_id",
                 "get_finalized_cid_for_project_id_epoch_id"} ->
         <<"project_id", "epoch_id">>

\* The defaults of the signature of a tool function, for its parameters that
\* have one.
ToolDefaults(tool) ==
  CASE tool \in {"get_daily_active_tokens", "get_daily_active_pools"} ->
         [page |-> Some(1), size |-> Some(50), metadata |-> Some(FALSE),
          time_interval |-> Some(86400)]
    [] tool = "get_token_price_pool" ->
         [pool_address |-> None, block_number |-> None]
    [] tool \in {"get_ethprice", "get_base_snapshot", "get_trades_snapshot",
                 "get_all_trades_snapshot", "get_token_price_all"} ->
         [block_number |-> None]
    [] OTHER -> NoFields

\* The parameters of a tool function as its body sees them: the arguments
\* the caller gave, the defaults of the signature where the caller gave none.
Bound(tool, a) ==
  [k \in DOMAIN a |->
     IF k \in DOMAIN ToolDefaults(tool) /\ IsNone(a[k])
     THEN ToolDefaults(tool)[k] ELSE a[k]]

\* The arguments the helper receives from the tool: the value passed at each
\* position, under the name the helper's signature has at that position.
Delegate(tool, params) ==
  LET names == HelperParameters(tool)
  IN [k \in {names[i] : i \in DOMAIN names} |->
        params[Passed(tool)[CHOOSE i \in DOMAIN names : names[i] = k]]]

\* A tool function: `return await _helper(p1, p2, ...)`.
CallTool(tool, a, base) == CallHelper(tool, Delegate(tool, Bound(tool, a)), base)

\* The model a helper validates the parsed body against: X.model_validate(data).
\* _get_token_price_pool validates nothing (it returns response.json()).
ResponseModel(tool) ==
  CASE tool = "get_pool_metadata" -> Some(TModel("PoolMetadata"))
    [] tool = "get_token_pools" -> Some(TModel("GetTokenPoolsResponse"))
    [] tool = "get_ethprice" -> Some(TModel("GetEthPriceResponse"))
    [] tool = "get_token_price_pool" -> None
    [] tool = "get_token_base_snapshots" -> Some(GetTokenBaseSnapshotsResponse)
    [] tool = "get_base_snapshot" -> Some(TModel("GetBaseSnapshotResponse"))
    [] tool = "get_trades_snapshot" -> Some(TModel("GetTradesSnapshotResponse"))
    [] tool = "get_all_trades_snapshot" ->
         Some(TModel("GetAllTradesSnapshotResponse"))
    [] tool = "get_token_price_all" -> Some(GetTokenPriceAllResponse)
    [] tool = "get_trade_volume_agg_all_pools" ->
         Some(TModel("GetTradeVolumeAggResponse"))
    [] tool = "get_trade_volume_agg" -> Some(TModel("GetTradeVolumeAggResponse"))
    [] tool = "get_pool_trades" -> Some(GetPoolTradesResponse)
    [] tool = "get_token_price_series" ->
         Some(TModel("GetTokenPriceSeriesResponse"))
    [] tool = "get_daily_active_tokens" ->
         Some(TModel("GetDailyActiveTokensResponse"))
    [] tool = "get_daily_active_pools" ->
         Some(TModel("GetDailyActivePoolsResponse"))
    [] tool = "health_check" -> Some(TModel("HealthCheckResponse"))
    [] tool = "get_current_epoch_data" ->
         Some(TModel("GetCurrentEpochDataResponse"))
    [] tool = "get_epoch_info" -> Some(TModel("GetEpochInfoResponse"))
    [] tool = "get_project_last_finalized_epoch_info" ->
         Some(TModel("GetProjectLastFinalizedEpochInfoResponse"))
    [] tool = "get_data_for_project_id_epoch_id" ->
         Some(TModel("GetDataForProjectIdEpochIdResponse"))
    [] tool = "get_finalized_cid_for_project_id_epoch_id" ->
         Some(GetFinalizedCidForProjectIdEpochIdResponse)

\* The return annotation of a tool: the response shape it declares.
ReturnAnnotation(tool) ==
  IF tool = "get_token_price_pool" THEN TFloat ELSE Get(ResponseModel(tool))

\* Mutant of AsyncClient: one client built at module level, used by every
\* call.
AsyncClient_module_level(task) == 0

\* httpx.AsyncClient() in the body of a helper: every call builds a client
\* object of its own, named here by the task that runs the call (1 where
\* calls are made one after another).
AsyncClient(task) == task

\* Mutant of client_cookies: one module-level client used by every call,
\* holding the cookies set so far.
client_cookies_module_level(received) == received

\* Each helper call builds its client with httpx.AsyncClient(): a new cookie
\* jar, empty, whatever cookies earlier answers have set.
client_cookies(received) == {}

\* Mutant of follow_redirects: a client built with follow_redirects=True.
follow_redirects_on == TRUE

\* httpx.AsyncClient() is built without arguments: redirects are not followed.
follow_redirects == FALSE

\* Response.is_redirect: a redirect status (with a Location header).
is_redirect(status_code) == status_code \in {301, 302, 303, 307, 308}

\* Mutant of is_success: only 4xx and 5xx count as errors.
is_success_below_400(status_code) == status_code < 400

\* Response.is_success, which raise_for_status tests: 2xx.
is_success(status_code) == 200 <= status_code /\ status_code <= 299

\* What a helper does with the answer to its GET:
\*   response.raise_for_status(); data = response.json();
\*   return Model.model_validate(data)
\* (a transport failure makes client.get itself raise).
Outcome(kind, exc, value, status, body, errs) ==
  [kind |-> kind, exc |-> exc, value |-> value, status |-> status,
   body |-> body, errs |-> errs]

Returned(value) == Outcome("value", "", Some(value), None, None, {})

ValidationOutcome(r) ==
  IF r.errs = {} THEN Returned(r.val)
  ELSE Outcome("Validation", "ValidationError", None, None, None, r.errs)

\* The steps performed on the answer and the outcome they end with.
Steps(performed, outcome) == [steps |-> performed, outcome |-> outcome]

\* Mutant of Resume: the body is parsed before the status is checked.
Resume_parse_first(model, resp) ==
  IF resp.failed
  THEN Steps(<<>>, Outcome("Transport", "TransportError", None, None, None, {}))
  ELSE IF ~IsJson(resp.body)
  THEN Steps(<<"json">>,
             Outcome("Validation", "JSONDecodeError", None, None, None, {}))
  ELSE IF ~is_success(resp.status_code)
  THEN Steps(<<"json", "raise_for_status">>,
             Outcome("HttpStatus", "HTTPStatusError", None,
                     Some(resp.status_code), Some(resp.body), {}))
  ELSE IF IsNone(model)
  THEN Steps(<<"json", "raise_for_status", "return">>,
             Returned(JsonLoads(resp.body)))
  ELSE LET r == ValidationOutcome(model_validate(Get(model), JsonLoads(resp.body)))
       IN Steps(<<"json", "raise_for_status", "model_validate">>
                  \o (IF r.kind = "value" THEN <<"return">> ELSE <<>>), r)

\* The helper resumes with the answer to its GET: the statements after
\* client.get in the order they are written, each either raising (which ends
\* the helper) or going on to the next.
Resume(model, resp) ==
  IF resp.failed
  THEN Steps(<<>>, Outcome("Transport", "TransportError", None, None, None, {}))
  ELSE IF ~is_success(resp.status_code)
  THEN Steps(<<"raise_for_status">>,
             Outcome("HttpStatus", "HTTPStatusError", None,
                     Some(resp.status_code), Some(resp.body), {}))
  ELSE IF ~IsJson(resp.body)
  THEN Steps(<<"raise_for_status", "json">>,
             Outcome("Validation", "JSONDecodeError", None, None, None, {}))
  ELSE IF IsNone(model)
  THEN Steps(<<"raise_for_status", "json", "return">>,
             Returned(JsonLoads(resp.body)))
  ELSE LET r == ValidationOutcome(model_validate(Get(model), JsonLoads(resp.body)))
       IN Steps(<<"raise_for_status", "json", "model_validate">>
                  \o (IF r.kind = "value" THEN <<"return">> ELSE <<>>), r)

HandleResponse(model, resp) == Resume(model, resp).outcome

(***************************************************************************)
(* The upstream API (the environment): the bodies it can answer with.      *)
(* Fixture(tool) is a body of the shape the endpoint documents; the other  *)
(* bodies are that body with one member dropped, nulled, replaced by a     *)
(* digit string or added, and bodies of another top-level kind.            *)
(***************************************************************************)
FxTokenMetadata ==
  DObj([address |-> DStr("0xT"), name |-> DStr("Token"), symbol |-> DStr("TK"),
        decimals |-> DInt(18)])

FxPoolMetadata ==
  DObj([address |-> DStr("0xP"), token0 |-> FxTokenMetadata,
        token1 |-> FxTokenMetadata, fee |-> DInt(3000), factory |-> DStr("0xF")])

FxEpoch == DObj([begin |-> DInt(10), end |-> DInt(19), epochId |-> DInt(4)])

FxSeries == DObj([ts1 |-> DFlt(2, 5)])

FxLog ==
  DObj([_score |-> DInt(1), address |-> DStr("0xP"), blockNumber |-> DInt(12),
        data |-> DStr("0x00"), eventName |-> DStr("Swap"),
        filterName |-> DStr("swaps"), logIndex |-> DInt(3),
        topics |-> DArr(<<DStr("0xaa")>>), transactionHash |-> DStr("0xbb"),
        transactionIndex |-> DInt(5)])

FxTradeData ==
  DObj([amount0 |-> DFlt(1, 5), amount1 |-> DFlt(2, 0),
        block_timestamp |-> DInt(17), calculated_eth_price |-> DFlt(3, 5),
        calculated_token0_amount |-> DFlt(4, 5),
        calculated_token1_amount |-> DFlt(5, 5),
        calculated_trade_amount_usd |-> DFlt(6, 5), liquidity |-> DInt(7),
        recipient |-> DStr("0xR"), sender |-> DStr("0xS"),
        sqrtPriceX96 |-> DInt(8), tick |-> DInt(9)])

FxTrade == DObj([tradeType |-> DStr("swap"), log |-> FxLog, data |-> FxTradeData])

FxTradesSnapshot ==
  DObj([address |-> DStr("0xP"), epoch |-> FxEpoch, trades |-> DArr(<<FxTrade>>),
        previousSnapshots |-> DArr(<<>>)])

FxBaseSnapshot ==
  DObj([address |-> DStr("0xP"), epoch |-> FxEpoch,
        timestamps |-> DObj([ts1 |-> DInt(17)]),
        token0 |-> DStr("0xT"), token1 |-> DStr("0xU"),
        token0Reserves |-> FxSeries, token1Reserves |-> FxSeries,
        token0ReservesUSD |-> FxSeries, token1ReservesUSD |-> FxSeries,
        token0Prices |-> FxSeries, token1Prices |-> FxSeries,
        token0PricesUSD |-> FxSeries, token1PricesUSD |-> FxSeries,
        totalTrade |-> DFlt(1, 5), totalTradeMintBurn |-> DFlt(2, 5),
        totalFee |-> DFlt(0, 5), token0MintBurnVolume |-> DFlt(3, 5),
        token1MintBurnVolume |-> DFlt(4, 5),
        token0MintBurnVolumeUSD |-> DFlt(5, 5),
        token1MintBurnVolumeUSD |-> DFlt(6, 5),
        token0TradeVolume |-> DFlt(7, 5), token1TradeVolume |-> DFlt(8, 5),
        token0TradeVolumeUSD |-> DFlt(9, 5), token1TradeVolumeUSD |-> DInt(2),
        previousSnapshots |-> DArr(<<DInt(5)>>)])

FxPagination ==
  DObj([page |-> DInt(1), size |-> DInt(50), total |-> DInt(1),
        total_pages |-> DInt(1)])

Fixture(tool) ==
  CASE tool = "get_pool_metadata" -> FxPoolMetadata
    [] tool = "get_token_pools" ->
         DObj([pools |-> DObj([p1 |-> FxPoolMetadata, p2 |-> FxPoolMetadata])])
    [] tool = "get_ethprice" ->
         DObj([epoch |-> FxEpoch, ethPrice |-> FxSeries,
               previousSnapshots |-> DArr(<<>>)])
    [] tool = "get_token_price_pool" -> DFlt(1, 5)
    [] tool = "get_token_base_snapshots" ->
         DObj([p1 |-> DObj([anything |-> DInt(1)])])
    [] tool = "get_base_snapshot" -> FxBaseSnapshot
    [] tool = "get_trades_snapshot" -> FxTradesSnapshot
    [] tool = "get_all_trades_snapshot" ->
         DObj([epoch |-> FxEpoch,
               tradeData |-> DObj([p1 |-> FxTradesSnapshot, p2 |-> FxTradesSnapshot]),
               previousSnapshots |-> DArr(<<>>)])
    [] tool = "get_token_price_all" -> DObj([p1 |-> DFlt(1, 5), p2 |-> DNull])
    [] tool \in {"get_trade_volume_agg_all_pools", "get_trade_volume_agg"} ->
         DObj([totalTradeVolume |-> DFlt(12, 5), timeInterval |-> DInt(86400)])
    [] tool = "get_pool_trades" -> DArr(<<DObj([anything |-> DInt(1)])>>)
    [] tool = "get_token_price_series" ->
         DObj([priceSeries |->
                 DArr(<<DObj([blockNumber |-> DInt(12), price |-> DFlt(1, 5),
                              timestamp |-> DInt(17)])>>),
               timeInterval |-> DInt(86400)])
    [] tool = "get_daily_active_tokens" ->
         DObj([active_tokens |->
                 DArr(<<DObj([token_address |-> DStr("0xT"),
                              frequency |-> DInt(2),
                              metadata |-> FxTokenMetadata])>>),
               pagination |-> FxPagination])
    [] tool = "get_daily_active_pools" ->
         DObj([active_pools |->
                 DArr(<<DObj([pool_address |-> DStr("0xP"),
                              frequency |-> DInt(2),
                              metadata |-> FxPoolMetadata])>>),
               pagination |-> FxPagination])
    [] tool = "health_check" -> DObj([status |-> DStr("OK")])
    [] tool = "get_current_epoch_data" -> FxEpoch
    [] tool = "get_epoch_info" ->
         DObj([timestamp |-> DInt(17), blocknumber |-> DInt(12),
               epochEnd |-> DInt(19)])
    [] tool = "get_project_last_finalized_epoch_info" ->
         DObj([epochId |-> DInt(4), timestamp |-> DInt(17),
               blocknumber |-> DInt(12), epochEnd |-> DInt(19)])
    [] tool = "get_data_for_project_id_epoch_id" -> FxBaseSnapshot
    [] tool = "get_finalized_cid_for_project_id_epoch_id" -> DStr("bafkrei")

\* The members of a document: keys of an object, indices of an array.
Keys(doc) ==
  CASE doc.j = "obj" -> DOMAIN doc.m
    [] doc.j = "arr" -> {ToString(i - 1) : i \in DOMAIN doc.a}
    [] OTHER -> {}

Index(doc, key) == CHOOSE i \in DOMAIN doc.a : ToString(i - 1) = key

Child(doc, key) == IF doc.j = "obj" THEN doc.m[key] ELSE doc.a[Index(doc, key)]

\* The paths of all members of a document, at every depth.
RECURSIVE MemberPaths(_)
MemberPaths(doc) ==
  UNION {{<<k>>} \cup {<<k>> \o q : q \in MemberPaths(Child(doc, k))} : k \in Keys(doc)}

\* The paths of all objects of a document, the document itself included.
RECURSIVE ObjectPaths(_)
ObjectPaths(doc) ==
  (IF doc.j = "obj" THEN {<<>>} ELSE {}) \cup
  UNION {{<<k>> \o q : q \in ObjectPaths(Child(doc, k))} : k \in Keys(doc)}

RemoveKey(doc, key) ==
  IF doc.j = "obj" THEN DObj([k \in DOMAIN doc.m \ {key} |-> doc.m[k]])
  ELSE LET i == Index(doc, key)
       IN DArr(SubSeq(doc.a, 1, i - 1) \o SubSeq(doc.a, i + 1, Len(doc.a)))

\* The object with the member at key named new instead.
RenameKey(doc, key, new) ==
  IF doc.j = "obj" /\ key \in DOMAIN doc.m
  THEN DObj([k \in (DOMAIN doc.m \ {key}) \cup {new} |->
               IF k = new THEN doc.m[key] ELSE doc.m[k]])
  ELSE doc

SetKey(doc, key, new) ==
  IF doc.j = "obj"
  THEN DObj([k \in DOMAIN doc.m \cup {key} |-> IF k = key THEN new ELSE doc.m[k]])
  ELSE DArr([doc.a EXCEPT ![Index(doc, key)] = new])

\* The document without the member at path.
RECURSIVE DropAt(_, _)
DropAt(doc, path) ==
  IF Len(path) = 1 THEN RemoveKey(doc, path[1])
  ELSE SetKey(doc, path[1], DropAt(Child(doc, path[1]), Tail(path)))

\* The document with the member at path set to new (added if it is new).
RECURSIVE PutAt(_, _, _)
PutAt(doc, path, new) ==
  IF Len(path) = 1 THEN SetKey(doc, path[1], new)
  ELSE SetKey(doc, path[1], PutAt(Child(doc, path[1]), Tail(path), new))

ExtraField == "extra_field"

\* Bodies of another top-level kind than any endpoint documents.
OtherBodies ==
  {DInvalid, DNull, DStr("abc"), DStr("7"), DInt(0), DInt(1), DFlt(1, 0),
   DFlt(1, 5), DArr(<<>>), DArr(<<DInt(1)>>), DObj(NoFields),
   DObj([error |-> DStr("not found")])}

Bodies(tool) ==
  LET fx == Fixture(tool)
  IN {fx} \cup OtherBodies
     \cup {DropAt(fx, p) : p \in MemberPaths(fx)}
     \cup {PutAt(fx, p, DNull) : p \in MemberPaths(fx)}
     \cup {PutAt(fx, p, DStr("7")) : p \in MemberPaths(fx)}
     \cup {PutAt(fx, Append(p, ExtraField), DStr("x")) : p \in ObjectPaths(fx)}
     \cup {RenameKey(fx, "blocknumber", "blockNumber")}

\* The bodies answered with a status that is not 2xx: an error body, text
\* that is not JSON, and the body a success would have carried.
ErrorBodies(tool) ==
  {DObj([error |-> DStr("not found")]), DInvalid, Fixture(tool)}

StatusCodes == {199, 200, 204, 299, 300, 301, 404, 500}

(***************************************************************************)
(* The arguments callers pass.                                             *)
(***************************************************************************)
Tokens == {"0xT"}
Pools == {"0xP"}
Projects == {"baseSnapshot:0xP:UNISWAPV3", "1"}
Blocks == 0..MaxBlock
OptBlocks == {None} \cup {Some(b) : b \in Blocks}
OptPools == {None, Some("")} \cup {Some(p) : p \in Pools}
Intervals == {3600, 86400}

Args(tool) ==
  CASE tool \in {"get_pool_metadata"} -> [pool_address : Pools]
    [] tool \in {"get_token_pools", "get_token_base_snapshots"} ->
         [token_address : Tokens]
    [] tool \in {"get_ethprice", "get_all_trades_snapshot"} ->
         [block_number : OptBlocks]
    [] tool = "get_token_price_pool" ->
         [token_address : Tokens, pool_address : OptPools, block_number : OptBlocks]
    [] tool \in {"get_base_snapshot", "get_trades_snapshot"} ->
         [pool_address : Pools, block_number : OptBlocks]
    [] tool = "get_token_price_all" ->
         [token_address : Tokens, block_number : OptBlocks]
    [] tool = "get_trade_volume_agg_all_pools" ->
         [token_address : Tokens, time_interval : Intervals]
    [] tool = "get_trade_volume_agg" ->
         [pool_address : Pools, time_interval : Intervals]
    [] tool = "get_pool_trades" ->
         [pool_address : Pools, start_timestamp : {1, 2}, end_timestamp : {2}]
    [] tool = "get_token_price_series" ->
         [token_address : Tokens, pool_address : Pools,
          time_interval : Intervals, step_seconds : {60}]
    [] tool \in {"get_daily_active_tokens", "get_daily_active_pools"} ->
         [page : {None, Some(2)}, size : {None, Some(10)},
          metadata : {None, Some(TRUE), Some(FALSE)},
          time_interval : {None, Some(3600)}]
    [] tool \in {"health_check", "get_current_epoch_data"} -> {NoFields}
    [] tool = "get_epoch_info" -> [epoch_id : Blocks]
    [] tool = "get_project_last_finalized_epoch_info" -> [project_id : Projects]
    [] tool \in {"get_data_for_project_id_epoch_id",
                 "get_finalized_cid_for_project_id_epoch_id"} ->
         [project_id : Projects, epoch_id : Blocks]

\* The Location a redirect answer to a GET of url names.
Location(url) == url \o "/"

\* The answers the upstream can give to the GET of a tool.
\* The last of them sets a cookie (a Set-Cookie header).
Responses(tool) ==
  {[failed |-> TRUE, status_code |-> 0, body |-> DInvalid, set_cookie |-> {}]}
  \cup {[failed |-> FALSE, status_code |-> 200, body |-> b, set_cookie |-> {}] :
          b \in Bodies(tool)}
  \cup {[failed |-> FALSE, status_code |-> c, body |-> b, set_cookie |-> {}] :
          c \in {c \in StatusCodes : is_success(c)}, b \in {Fixture(tool), DInvalid}}
  \cup {[failed |-> FALSE, status_code |-> c, body |-> b, set_cookie |-> {}] :
          c \in {c \in StatusCodes : ~is_success(c)}, b \in ErrorBodies(tool)}
  \cup {[failed |-> FALSE, status_code |-> 200, body |-> Fixture(tool),
          set_cookie |-> {"session"}]}

(***************************************************************************)
(* State: the base URL of the process and one invocation at its steps.     *)
(***************************************************************************)
VARIABLES
  SNAPSHOTTER_CORE_API_URL, \* the module-level base URL
  pc,            \* "idle", "entered", "awaiting", "responded", "done"
  tool,          \* the tool invoked
  args,          \* its arguments
  requests,      \* the GETs this invocation has issued, in order
  response,      \* the upstream's answer, once there
  outcome,       \* what the invocation gave its caller
  open_clients,  \* httpx.AsyncClient instances open
  cookies,       \* the cookies the upstream's answers have set so far
  steps,         \* the steps the invocation has performed, in order
  client         \* the helper's local `client`, while the `async with` is open

\* The state of the `if __name__ == "__main__":` block: process start.
VARIABLES
  argv,          \* sys.argv[1:] (the source's `args`)
  arg_i,         \* the scan index (the source's `i`), counted from 0
  transport,     \* the three settings
  host,
  port,
  main_pc,       \* "scan", "run", or "ValueError" once int() has raised
  run            \* the arguments of the mcp.run call, once made

main_vars == <<argv, arg_i, transport, host, port, main_pc, run>>

tool_vars ==
  <<SNAPSHOTTER_CORE_API_URL, pc, tool, args, requests, response, outcome,
    open_clients, cookies, steps, client>>

vars == <<tool_vars, main_vars>>

\* mcp.run(transport="stdio"): host and port are not passed.
RunStdio == [transport |-> "stdio", host |-> None, port |-> None]

\* The server was started without flags and serves over stdio.
StartedWithoutFlags ==
  /\ argv = <<>>
  /\ arg_i = 0
  /\ transport = "stdio"
  /\ host = "127.0.0.1"
  /\ port = 8000
  /\ main_pc = "run"
  /\ run = Some(RunStdio)

NoOutcome == Outcome("none", "", None, None, None, {})

\* The values the environment variable SNAPSHOTTER_CORE_API_URL may have.
Environment == {None, Some("http://localhost:8002")}

Init ==
  /\ \E env \in Environment :
       SNAPSHOTTER_CORE_API_URL = Getenv(env, "https://bds-api.powerloom.io")
  /\ StartedWithoutFlags
  /\ pc = "idle"
  /\ tool = ""
  /\ args = NoFields
  /\ requests = <<>>
  /\ response = None
  /\ outcome = NoOutcome
  /\ open_clients = 0
  /\ cookies = {}
  /\ steps = <<>>
  /\ client = None

\* A caller invokes a tool; the helper enters `async with httpx.AsyncClient()`.
Invoke ==
  /\ pc = "idle"
  /\ \E t \in Tools : \E a \in Args(t) : tool' = t /\ args' = a
  /\ pc' = "entered"
  /\ open_clients' = open_clients + 1
  /\ client' = Some(AsyncClient(1))
  /\ UNCHANGED <<main_vars, cookies, steps, SNAPSHOTTER_CORE_API_URL, requests, response,
               outcome>>

\* The helper builds its URL and awaits client.get, or raises before it (the
\* exception leaves the `async with`, which closes the client).
Send ==
  /\ pc = "entered"
  /\ \E r \in {CallTool(tool, args, SNAPSHOTTER_CORE_API_URL)} :
        IF r.raised
        THEN /\ pc' = "done"
             /\ outcome' = Outcome("InvalidArgument", "ValueError", None, None, None, {})
             /\ open_clients' = open_clients - 1
             /\ client' = None
             /\ UNCHANGED <<requests, steps>>
        ELSE /\ pc' = "awaiting"
             /\ requests' = Append(requests,
                                   [url |-> r.url, params |-> r.params,
                                    target |-> merge_url(URL(r), r.params),
                                    cookies |-> client_cookies(cookies),
                                    client |-> Get(client)])
             /\ steps' = steps \o <<"build_url", "get">>
             /\ UNCHANGED <<outcome, open_clients, client>>
  /\ UNCHANGED <<main_vars, cookies, SNAPSHOTTER_CORE_API_URL, tool, args, response>>

\* The upstream answers the GET, or the transport fails.
Respond ==
  /\ pc = "awaiting"
  /\ \E resp \in Responses(tool) :
       IF follow_redirects /\ ~resp.failed /\ is_redirect(resp.status_code)
       THEN /\ requests' = Append(requests,
                                   [url |-> Location(requests[1].url),
                                    params |-> None,
                                    target |-> Location(requests[1].url),
                                    cookies |-> client_cookies(cookies),
                                    client |-> Get(client)])
            /\ UNCHANGED <<pc, response, cookies>>
       ELSE /\ response' = Some(resp)
            /\ cookies' = cookies \cup resp.set_cookie
            /\ pc' = "responded"
            /\ UNCHANGED requests
  /\ UNCHANGED <<main_vars, steps, client, SNAPSHOTTER_CORE_API_URL, tool, args, outcome,
               open_clients>>

\* The helper resumes: status check, parse, validation, return or raise; the
\* `async with` closes the client on either way out.
Complete ==
  /\ pc = "responded"
  /\ \E r \in {Resume(ResponseModel(tool), Get(response))} :
       /\ outcome' = r.outcome
       /\ steps' = steps \o r.steps
  /\ open_clients' = open_clients - 1
  /\ client' = None
  /\ pc' = "done"
  /\ UNCHANGED <<main_vars, cookies, SNAPSHOTTER_CORE_API_URL, tool, args, requests, response>>

\* The caller has the result; nothing of the invocation is kept.
Return ==
  /\ pc = "done"
  /\ pc' = "idle"
  /\ tool' = ""
  /\ args' = NoFields
  /\ requests' = <<>>
  /\ response' = None
  /\ outcome' = NoOutcome
  /\ steps' = <<>>
  /\ UNCHANGED <<main_vars, cookies, client, SNAPSHOTTER_CORE_API_URL, open_clients>>

Next == Invoke \/ Send \/ Respond \/ Complete \/ Return

Spec == Init /\ [][Next]_vars

TypeOK ==
  /\ pc \in {"idle", "entered", "awaiting", "responded", "done"}
  /\ tool \in Tools \cup {""}
  /\ Len(requests) \in 0..1
  /\ Len(response) \in 0..1
  /\ open_clients \in 0..1

(***************************************************************************)
(* Properties.                                                             *)
(***************************************************************************)

\* The invocation has issued its GET (and may have its answer).
Requested == pc \in {"awaiting", "responded", "done"} /\ Len(requests) > 0

\* The URL of the GET the invocation issued: as passed to client.get, and
\* as requested (with the query, where params= was passed).
RequestUrl == requests[1].url
RequestTarget == requests[1].target

\* The base URL followed by a path.
Url(path) == SNAPSHOTTER_CORE_API_URL \o path

\* The suffix "/{block_number}" of a with-block URL.
BlockSuffix(block_number) == "/" \o ToString(Get(block_number))

\* C1: the pool-price tool called without a pool_address, with or without a
\* block_number, fails with ValueError (InvalidArgument) and issues no GET:
\* such an invocation never waits for an answer, and once it is over its
\* outcome is the error and its request log is empty.
C1_NoPoolAddressFailsBeforeAnyRequest ==
  (tool = "get_token_price_pool" /\ IsNone(args.pool_address)) =>
    /\ requests = <<>>
    /\ pc \notin {"awaiting", "responded"}
    /\ pc = "done" =>
         /\ outcome.kind = "InvalidArgument"
         /\ outcome.exc = "ValueError"
         /\ IsNone(outcome.value)

\* C1 witness: block_number supplied alone, the invocation over with the error.
C1_Witness ==
  /\ pc = "done"
  /\ tool = "get_token_price_pool"
  /\ IsNone(args.pool_address)
  /\ args.block_number = Some(1)
  /\ outcome.exc = "ValueError"
  /\ requests = <<>>

\* C2: the pool-price tool with a pool_address supplied sends its GET to
\* /token/price/{token}/{pool} when block_number is omitted and to
\* /token/price/{token}/{pool}/{block} for every supplied block_number, 0
\* included.
C2_PoolPriceUrlByBlockPresence ==
  (tool = "get_token_price_pool" /\ Requested /\ ~IsNone(args.pool_address)) =>
    RequestUrl =
      Url("/token/price/" \o args.token_address \o "/" \o Get(args.pool_address))
      \o (IF IsNone(args.block_number) THEN "" ELSE BlockSuffix(args.block_number))

\* The no-block URL of the four tools of C3.
NoBlockUrl ==
  CASE tool = "get_base_snapshot" -> Url("/snapshot/base/" \o args.pool_address)
    [] tool = "get_trades_snapshot" -> Url("/snapshot/trades/" \o args.pool_address)
    [] tool = "get_all_trades_snapshot" -> Url("/snapshot/allTrades")
    [] tool = "get_token_price_all" -> Url("/tokenPrices/all/" \o args.token_address)

\* C3: base snapshot, trades snapshot, all-trades snapshot and
\* token-price-all request the no-block URL if and only if block_number is
\* omitted, and the URL ending in /{block_number} for every supplied
\* block_number, 0 included.
C3_SnapshotUrlByBlockPresence ==
  (tool \in {"get_base_snapshot", "get_trades_snapshot",
             "get_all_trades_snapshot", "get_token_price_all"} /\ Requested) =>
    /\ (RequestUrl = NoBlockUrl) <=> IsNone(args.block_number)
    /\ ~IsNone(args.block_number) =>
         RequestUrl = NoBlockUrl \o BlockSuffix(args.block_number)

\* C4: the eth price tool requests /ethPrice if and only if block_number is
\* omitted, and /ethPrice/{block_number} for every supplied block_number, 0
\* included.
C4_EthPriceUrlByBlockPresence ==
  (tool = "get_ethprice" /\ Requested) =>
    /\ Len(requests) = 1
    /\ (RequestUrl = Url("/ethPrice")) <=> IsNone(args.block_number)
    /\ ~IsNone(args.block_number) =>
         RequestUrl = Url("/ethPrice") \o BlockSuffix(args.block_number)

\* C4 witness: block number 0 was supplied and /ethPrice/0 was requested.
C4_Witness ==
  /\ tool = "get_ethprice"
  /\ Requested
  /\ args.block_number = Some(0)
  /\ RequestUrl = Url("/ethPrice/0")

\* The answer of the invocation, once there.
Answered == pc \in {"responded", "done"} /\ ~IsNone(response) /\ ~Get(response).failed

StatusCode == Get(response).status_code
Body == Get(response).body

\* C5 (as amended): an invocation issues at most one GET whatever its
\* outcome; once it is over, every tool other than pool-price has issued
\* exactly one, and pool-price exactly one when pool_address is a non-empty
\* string and none when it is absent or empty.
C5_AtMostOneGet ==
  /\ Len(requests) <= 1
  /\ pc \in {"awaiting", "responded"} => Len(requests) = 1
  /\ pc = "done" =>
       Len(requests) =
         IF tool = "get_token_price_pool" /\ args.pool_address \in {None, Some("")}
         THEN 0 ELSE 1

\* C5 witness: pool-price with an empty pool_address is over, with the
\* ValueError and without any GET.
C5_Witness ==
  /\ pc = "done"
  /\ tool = "get_token_price_pool"
  /\ args.pool_address = Some("")
  /\ outcome.exc = "ValueError"
  /\ requests = <<>>

\* C5 as stated: at most one GET; exactly one for every tool other than
\* pool-price, and for pool-price whenever pool_address is supplied.
C5_ExactlyOneGetWhenPoolSupplied ==
  /\ Len(requests) <= 1
  /\ (pc = "done" /\ (tool # "get_token_price_pool" \/ ~IsNone(args.pool_address)))
       => Len(requests) = 1

\* C6: for every tool and every status code outside 200-299 the invocation
\* fails with an HttpStatus error carrying that status code and the response
\* body, and returns no value.
C6_Non2xxIsHttpStatusError ==
  (pc = "done" /\ Answered /\ ~(StatusCode >= 200 /\ StatusCode <= 299)) =>
    /\ outcome.kind = "HttpStatus"
    /\ outcome.exc = "HTTPStatusError"
    /\ outcome.status = Some(StatusCode)
    /\ outcome.body = Some(Body)
    /\ IsNone(outcome.value)

\* C6 witness: a 301 with the error body ended as HttpStatus 301.
C6_Witness ==
  /\ pc = "done"
  /\ Answered
  /\ StatusCode = 301
  /\ Body = DObj([error |-> DStr("not found")])
  /\ outcome.kind = "HttpStatus"
  /\ outcome.status = Some(301)

\* A Python value is an instance of a type: what a return annotation states.
RECURSIVE Conforms(_, _)
Conforms(ty, val) ==
  CASE ty.k = "int" -> val.t = "int"
    [] ty.k = "float" -> val.t = "float"
    [] ty.k = "str" -> val.t = "str"
    [] ty.k = "any" -> TRUE
    [] ty.k = "opt" -> val.t = "None" \/ Conforms(ty.of, val)
    [] ty.k = "list" ->
         val.t = "list" /\ \A i \in DOMAIN val.l : Conforms(ty.of, val.l[i])
    [] ty.k = "dict" ->
         val.t = "dict" /\ \A key \in DOMAIN val.d : Conforms(ty.of, val.d[key])
    [] ty.k = "model" ->
         /\ val.t = "model"
         /\ val.cls = ty.cls
         /\ \A f \in ModelFields(ty.cls) :
              f \in DOMAIN val.o /\ Conforms(Annotations(ty.cls)[f].ty, val.o[f])

\* C7: for every tool, pool-price included, a returned value conforms to the
\* declared response shape of the tool.
C7_ReturnedValueConforms ==
  (pc = "done" /\ outcome.kind = "value") =>
    Conforms(ReturnAnnotation(tool), Get(outcome.value))

\* C8: every value _get_token_price_pool returns for a numeric JSON body is a
\* float.
C8_PoolPriceReturnsFloat ==
  (pc = "done" /\ tool = "get_token_price_pool" /\ outcome.kind = "value"
     /\ Body.j = "num") =>
    Get(outcome.value).t = "float"

\* The locations of the attributes a class body declares without a default
\* that a document lacks, at every depth the declared shape reaches.
RECURSIVE MissingRequired(_, _, _)
MissingRequired(ty, doc, loc) ==
  CASE ty.k = "opt" -> MissingRequired(ty.of, doc, loc)
    [] ty.k = "list" /\ doc.j = "arr" ->
         UNION {MissingRequired(ty.of, doc.a[i], Append(loc, ToString(i - 1))) :
                  i \in DOMAIN doc.a}
    [] ty.k = "dict" /\ doc.j = "obj" ->
         UNION {MissingRequired(ty.of, doc.m[key], Append(loc, key)) :
                  key \in DOMAIN doc.m}
    [] ty.k = "model" /\ doc.j = "obj" ->
         UNION {IF f \in DOMAIN doc.m
                THEN MissingRequired(Annotations(ty.cls)[f].ty, doc.m[f], Append(loc, f))
                ELSE IF Annotations(ty.cls)[f].dflt THEN {} ELSE {Append(loc, f)} :
                  f \in DOMAIN Annotations(ty.cls)}
    [] OTHER -> {}

\* C9: a 2xx body that lacks a required field of the declared schema, at
\* any depth, fails with a Validation error that names the path of every
\* such field.
C9_MissingRequiredFieldIsNamed ==
  (pc = "done" /\ Answered /\ StatusCode = 200 /\ IsJson(Body)) =>
    LET missing == MissingRequired(ReturnAnnotation(tool), Body, <<>>)
    IN missing # {} =>
         outcome.kind = "Validation" /\ missing \subseteq outcome.errs

\* A document without the keys its declared shape does not declare, in every
\* object that the shape makes a record.
RECURSIVE StripExtra(_, _)
StripExtra(ty, doc) ==
  CASE ty.k = "opt" -> StripExtra(ty.of, doc)
    [] ty.k = "list" /\ doc.j = "arr" ->
         DArr([i \in DOMAIN doc.a |-> StripExtra(ty.of, doc.a[i])])
    [] ty.k = "dict" /\ doc.j = "obj" ->
         DObj([key \in DOMAIN doc.m |-> StripExtra(ty.of, doc.m[key])])
    [] ty.k = "model" /\ doc.j = "obj" ->
         DObj([f \in DOMAIN doc.m \cap DOMAIN Annotations(ty.cls) |->
                 StripExtra(Annotations(ty.cls)[f].ty, doc.m[f])])
    [] OTHER -> doc

\* C10: for every record-shaped schema, a body that carries undeclared extra
\* fields and is valid without them validates, and the invocation returns
\* the value it returns for the body without them.
C10_ExtraFieldsAreIgnored ==
  (pc = "done" /\ Answered /\ StatusCode = 200 /\ IsJson(Body)
     /\ ~IsNone(ResponseModel(tool))) =>
    LET model == Get(ResponseModel(tool))
        bare == StripExtra(model, Body)
    IN (bare # Body /\ ValidationErrors(model, JsonLoads(bare), <<>>) = {}) =>
         /\ outcome.kind = "value"
         /\ outcome.value = Some(Validated(model, JsonLoads(bare)))

\* C10 witness: a PoolMetadata body with an extra field inside token0 was
\* returned as a value.
C10_Witness ==
  /\ pc = "done"
  /\ tool = "get_pool_metadata"
  /\ Answered
  /\ StatusCode = 200
  /\ Body = PutAt(FxPoolMetadata, <<"token0", ExtraField>>, DStr("x"))
  /\ outcome.kind = "value"

\* The tools with pagination arguments, and their paths.
PaginationTools == {"get_daily_active_tokens", "get_daily_active_pools"}

PaginationPath ==
  IF tool = "get_daily_active_tokens" THEN "/dailyActiveTokens"
  ELSE "/dailyActivePools"

\* C11: daily-active-tokens and daily-active-pools send page, size, metadata
\* and time_interval as query parameters of their single GET to
\* /dailyActiveTokens resp. /dailyActivePools, each with the value the caller
\* passed, or with page=1, size=50, metadata=false, time_interval=86400 where
\* the caller omitted it; none of them is in the path, none is dropped.
C11_PaginationQueryParameters ==
  (tool \in PaginationTools /\ Requested) =>
    /\ Len(requests) = 1
    /\ RequestUrl = Url(PaginationPath)
    /\ RequestTarget =
         Url(PaginationPath)
         \o "?page=" \o ToString(IF IsNone(args.page) THEN 1 ELSE Get(args.page))
         \o "&size=" \o ToString(IF IsNone(args.size) THEN 50 ELSE Get(args.size))
         \o "&metadata="
         \o (IF ~IsNone(args.metadata) /\ Get(args.metadata) THEN "true" ELSE "false")
         \o "&time_interval="
         \o ToString(IF IsNone(args.time_interval) THEN 86400
                     ELSE Get(args.time_interval))

\* C11 witness: daily-active-tokens called with metadata alone has requested
\* the defaults for the other three.
C11_Witness ==
  /\ tool = "get_daily_active_tokens"
  /\ Requested
  /\ args = [page |-> None, size |-> None, metadata |-> Some(TRUE),
             time_interval |-> None]
  /\ RequestTarget =
       Url("/dailyActiveTokens?page=1&size=50&metadata=true&time_interval=86400")

\* The number a Python value stands for, in tenths; a digit string stands
\* for the number it spells, which is how lax validation reads it.
NumberOf(val) ==
  CASE val.t = "int" -> Some(10 * val.i)
    [] val.t = "float" -> Some(val.f)
    [] val.t = "str" /\ ~IsNone(ParseInt(val.s)) -> Some(10 * Get(ParseInt(val.s)))
    [] OTHER -> None

\* Two Python values carry the same scalar value: they are equal, or they
\* stand for the same number.
SameScalar(a, b) ==
  a = b \/ (~IsNone(NumberOf(a)) /\ NumberOf(a) = NumberOf(b))

\* The result val holds, for every attribute the declared shape lists that
\* the parsed body data carries, the value the body has there.
RECURSIVE Preserved(_, _, _)
Preserved(ty, data, val) ==
  CASE ty.k = "opt" /\ data.t # "None" -> Preserved(ty.of, data, val)
    [] ty.k = "list" /\ data.t = "list" ->
         /\ val.t = "list"
         /\ DOMAIN val.l = DOMAIN data.l
         /\ \A i \in DOMAIN data.l : Preserved(ty.of, data.l[i], val.l[i])
    [] ty.k = "dict" /\ data.t = "dict" ->
         /\ val.t = "dict"
         /\ DOMAIN val.d = DOMAIN data.d
         /\ \A key \in DOMAIN data.d : Preserved(ty.of, data.d[key], val.d[key])
    [] ty.k = "model" /\ data.t = "dict" ->
         /\ val.t = "model"
         /\ \A f \in DOMAIN Annotations(ty.cls) \cap DOMAIN data.d :
              /\ f \in DOMAIN val.o
              /\ Preserved(Annotations(ty.cls)[f].ty, data.d[f], val.o[f])
    [] OTHER -> SameScalar(data, val)

\* C12: for every tool, the value returned for a 2xx body holds, in every
\* field its response class declares, the scalar value the body has there
\* (a number for the digit string that spells it, as lax validation reads
\* it): no declared field's value is altered or dropped.
C12_DeclaredFieldValuesPreserved ==
  (pc = "done" /\ Answered /\ outcome.kind = "value") =>
    Preserved(ReturnAnnotation(tool), JsonLoads(Body), Get(outcome.value))

(***************************************************************************)
(* Concurrent invocations.  The server runs each tool call as a task of    *)
(* one event loop; a task runs from one await to the next without          *)
(* interruption, and tasks interleave at their awaits (entering the        *)
(* client, client.get).  In ConcSpec the variables pc, tool, args,         *)
(* requests, response and outcome hold one component per task;             *)
(* SNAPSHOTTER_CORE_API_URL is the one module-level value and open_clients *)
(* counts the clients of all tasks.  An entry of requests[p] also keeps    *)
(* the answer the upstream gave to that GET.                               *)
(***************************************************************************)

\* The number of tasks that may be in progress at once.
MaxTasks == 2

Tasks == 1..MaxTasks

\* Mutant of Frame: response kept in one module-level variable.
Frame_module_level(task) == 1

\* client, response and data are local variables of the helper: each call
\* has them in its own frame.
Frame(task) == task

\* The calls the concurrent tasks make, and the answers they get.
ConcTools == {"get_ethprice", "get_token_price_pool", "get_pool_metadata"}

ConcArgs(t) ==
  CASE t = "get_ethprice" -> {[block_number |-> Some(1)]}
    [] t = "get_token_price_pool" ->
         {[token_address |-> "0xT", pool_address |-> pa, block_number |-> None] :
            pa \in {None, Some("0xP")}}
    [] t = "get_pool_metadata" -> {[pool_address |-> "0xP"]}

\* Each tool gets a valid answer and one that makes it fail; the three ways
\* of failing after the GET are there between them.
ConcResponses(t) ==
  {[failed |-> FALSE, status_code |-> 200, body |-> Fixture(t), set_cookie |-> {}],
   CASE t = "get_ethprice" ->
          [failed |-> FALSE, status_code |-> 404,
           body |-> DObj([error |-> DStr("not found")]), set_cookie |-> {}]
     [] t = "get_token_price_pool" ->
          [failed |-> TRUE, status_code |-> 0, body |-> DInvalid, set_cookie |-> {}]
     [] t = "get_pool_metadata" ->
          [failed |-> FALSE, status_code |-> 200, body |-> DNull, set_cookie |-> {}]}

ConcInit ==
  /\ \E env \in Environment :
       SNAPSHOTTER_CORE_API_URL = Getenv(env, "https://bds-api.powerloom.io")
  /\ StartedWithoutFlags
  /\ pc = [p \in Tasks |-> "idle"]
  /\ tool = [p \in Tasks |-> ""]
  /\ args = [p \in Tasks |-> NoFields]
  /\ requests = [p \in Tasks |-> <<>>]
  /\ response = [p \in Tasks |-> None]
  /\ outcome = [p \in Tasks |-> NoOutcome]
  /\ open_clients = 0
  /\ cookies = {}
  /\ steps = [p \in Tasks |-> <<>>]
  /\ client = [p \in Tasks |-> None]

\* The tools the tasks in progress other than p are running.
ToolsInProgress(p) == {tool[q] : q \in {q \in Tasks \ {p} : pc[q] # "idle"}}

\* A caller invokes a tool as task p, which enters its `async with`.  The
\* callers invoke different tools at a time.
TaskInvoke(p) ==
  /\ pc[p] = "idle"
  /\ \E t \in ConcTools \ ToolsInProgress(p) : \E a \in ConcArgs(t) :
       /\ tool' = [tool EXCEPT ![p] = t]
       /\ args' = [args EXCEPT ![p] = a]
  /\ pc' = [pc EXCEPT ![p] = "entered"]
  /\ open_clients' = open_clients + 1
  /\ client' = [client EXCEPT ![p] = Some(AsyncClient(p))]
  /\ UNCHANGED <<main_vars, cookies, steps, SNAPSHOTTER_CORE_API_URL, requests, response,
               outcome>>

\* Task p builds its URL and awaits client.get, or raises before it.
TaskSend(p) ==
  /\ pc[p] = "entered"
  /\ \E r \in {CallTool(tool[p], args[p], SNAPSHOTTER_CORE_API_URL)} :
        IF r.raised
        THEN /\ pc' = [pc EXCEPT ![p] = "done"]
             /\ outcome' = [outcome EXCEPT ![p] =
                              Outcome("InvalidArgument", "ValueError", None, None,
                                      None, {})]
             /\ open_clients' = open_clients - 1
             /\ client' = [client EXCEPT ![p] = None]
             /\ UNCHANGED <<requests, steps>>
        ELSE /\ pc' = [pc EXCEPT ![p] = "awaiting"]
             /\ requests' = [requests EXCEPT ![p] =
                               Append(@, [url |-> r.url, params |-> r.params,
                                          target |-> merge_url(URL(r), r.params),
                                          cookies |-> client_cookies(cookies),
                                          client |-> Get(client[p]),
                                          answer |-> None])]
             /\ steps' = [steps EXCEPT ![p] = @ \o <<"build_url", "get">>]
             /\ UNCHANGED <<outcome, open_clients, client>>
  /\ UNCHANGED <<main_vars, cookies, SNAPSHOTTER_CORE_API_URL, tool, args, response>>

\* The upstream answers the GET of task p (or the transport fails, a timeout
\* included), and the task's `response` is assigned.
TaskRespond(p) ==
  /\ pc[p] = "awaiting"
  /\ \E resp \in ConcResponses(tool[p]) :
       /\ requests' = [requests EXCEPT ![p][1].answer = Some(resp)]
       /\ response' = [response EXCEPT ![Frame(p)] = Some(resp)]
       /\ cookies' = cookies \cup resp.set_cookie
  /\ pc' = [pc EXCEPT ![p] = "responded"]
  /\ UNCHANGED <<main_vars, steps, client, SNAPSHOTTER_CORE_API_URL, tool, args, outcome,
               open_clients>>

\* Task p resumes: status check, parse, validation, return or raise.
TaskComplete(p) ==
  /\ pc[p] = "responded"
  /\ \E r \in {Resume(ResponseModel(tool[p]), Get(response[Frame(p)]))} :
       /\ outcome' = [outcome EXCEPT ![p] = r.outcome]
       /\ steps' = [steps EXCEPT ![p] = @ \o r.steps]
  /\ open_clients' = open_clients - 1
  /\ client' = [client EXCEPT ![p] = None]
  /\ pc' = [pc EXCEPT ![p] = "done"]
  /\ UNCHANGED <<main_vars, cookies, SNAPSHOTTER_CORE_API_URL, tool, args, requests, response>>

\* The caller of task p has the result; the frame of the call is gone.
TaskReturn(p) ==
  /\ pc[p] = "done"
  /\ pc' = [pc EXCEPT ![p] = "idle"]
  /\ tool' = [tool EXCEPT ![p] = ""]
  /\ args' = [args EXCEPT ![p] = NoFields]
  /\ requests' = [requests EXCEPT ![p] = <<>>]
  /\ response' = [response EXCEPT ![Frame(p)] = None]
  /\ outcome' = [outcome EXCEPT ![p] = NoOutcome]
  /\ steps' = [steps EXCEPT ![p] = <<>>]
  /\ UNCHANGED <<main_vars, cookies, client, SNAPSHOTTER_CORE_API_URL, open_clients>>

ConcNext ==
  \E p \in Tasks :
    \/ TaskInvoke(p)
    \/ TaskSend(p)
    \/ TaskRespond(p)
    \/ TaskComplete(p)
    \/ TaskReturn(p)

\* The event loop runs every task that can run, and every GET ends (with an
\* answer, or with a transport error once httpx's timeout expires).
ConcFairness ==
  \A p \in Tasks :
    /\ WF_vars(TaskSend(p))
    /\ WF_vars(TaskRespond(p))
    /\ WF_vars(TaskComplete(p))

ConcSpec == ConcInit /\ [][ConcNext]_vars /\ ConcFairness

\* The outcome of tool t with arguments a, run alone with base URL base and
\* given answer to its GET (no answer where it issues no GET).
AloneOutcome(t, a, base, answer) ==
  IF CallTool(t, a, base).raised
  THEN Outcome("InvalidArgument", "ValueError", None, None, None, {})
  ELSE HandleResponse(ResponseModel(t), Get(answer))

\* The answer the upstream gave to the GET of task p, if it issued one.
AnswerTo(p) == IF requests[p] = <<>> THEN None ELSE requests[p][1].answer

\* C13: with several invocations in progress at once, under every
\* interleaving of their steps, every invocation that was started completes
\* (no task stays for ever between its start and its end), and its outcome
\* is the outcome the same call has when run alone against the answer the
\* upstream gave to its own GET.
C13_ConcurrentInvocationsIndependent ==
  /\ [](\A p \in Tasks :
          pc[p] = "done" =>
            outcome[p] = AloneOutcome(tool[p], args[p], SNAPSHOTTER_CORE_API_URL,
                                      AnswerTo(p)))
  /\ \A p \in Tasks : []<>(pc[p] \in {"idle", "done"})

\* C13 witness: two different tools are in progress together, both answered
\* and neither completed yet; one was answered 404 and the other 200, and
\* each task holds its own answer.
C13_Witness ==
  /\ pc[1] = "responded" /\ pc[2] = "responded"
  /\ tool[1] = "get_ethprice" /\ tool[2] = "get_pool_metadata"
  /\ Get(requests[1][1].answer).status_code = 404
  /\ Get(requests[2][1].answer).status_code = 200
  /\ response[Frame(1)] = requests[1][1].answer
  /\ response[Frame(2)] = requests[2][1].answer

\* A path, alone or followed by a block number segment.
OptionalBlock(path) == {path} \cup {path \o "/" \o ToString(b) : b \in Blocks}

\* The paths of a tool's endpoint for arguments a, as the endpoint table of
\* the specification lists them.
ToolPaths(t, a) ==
  CASE t = "get_pool_metadata" -> {"/pool/" \o a.pool_address \o "/metadata"}
    [] t = "get_token_pools" -> {"/token/" \o a.token_address \o "/pools"}
    [] t = "get_ethprice" -> OptionalBlock("/ethPrice")
    [] t = "get_token_price_pool" ->
         OptionalBlock("/token/price/" \o a.token_address \o "/"
                       \o Get(a.pool_address))
    [] t = "get_token_base_snapshots" ->
         {"/snapshot/base_all_pools/" \o a.token_address}
    [] t = "get_base_snapshot" -> OptionalBlock("/snapshot/base/" \o a.pool_address)
    [] t = "get_trades_snapshot" ->
         OptionalBlock("/snapshot/trades/" \o a.pool_address)
    [] t = "get_all_trades_snapshot" -> OptionalBlock("/snapshot/allTrades")
    [] t = "get_token_price_all" ->
         OptionalBlock("/tokenPrices/all/" \o a.token_address)
    [] t = "get_trade_volume_agg_all_pools" ->
         {"/tradeVolumeAllPools/" \o a.token_address \o "/"
          \o ToString(a.time_interval)}
    [] t = "get_trade_volume_agg" ->
         {"/tradeVolume/" \o a.pool_address \o "/" \o ToString(a.time_interval)}
    [] t = "get_pool_trades" ->
         {"/poolTrades/" \o a.pool_address \o "/" \o ToString(a.start_timestamp)
          \o "/" \o ToString(a.end_timestamp)}
    [] t = "get_token_price_series" ->
         {"/timeSeries/" \o a.token_address \o "/" \o a.pool_address \o "/"
          \o ToString(a.time_interval) \o "/" \o ToString(a.step_seconds)}
    [] t = "get_daily_active_tokens" -> {"/dailyActiveTokens"}
    [] t = "get_daily_active_pools" -> {"/dailyActivePools"}
    [] t = "health_check" -> {"/health"}
    [] t = "get_current_epoch_data" -> {"/current_epoch"}
    [] t = "get_epoch_info" -> {"/epoch/" \o ToString(a.epoch_id)}
    [] t = "get_project_last_finalized_epoch_info" ->
         {"/last_finalized_epoch/" \o a.project_id}
    [] t = "get_data_for_project_id_epoch_id" ->
         {"/data/" \o ToString(a.epoch_id) \o "/" \o a.project_id \o "/"}
    [] t = "get_finalized_cid_for_project_id_epoch_id" ->
         {"/cid/" \o ToString(a.epoch_id) \o "/" \o a.project_id \o "/"}

\* The values the base URL can have at process start: the default, or the
\* value of the environment variable.
BaseUrls ==
  {"https://bds-api.powerloom.io"} \cup {Get(env) : env \in Environment \ {None}}

RECURSIVE OmittedOptional(_, _, _)
OmittedOptional(ty, doc, loc) ==
  CASE ty.k = "opt" -> OmittedOptional(ty.of, doc, loc)
    [] ty.k = "list" /\ doc.j = "arr" ->
         UNION {OmittedOptional(ty.of, doc.a[i], Append(loc, ToString(i - 1))) :
                  i \in DOMAIN doc.a}
    [] ty.k = "dict" /\ doc.j = "obj" ->
         UNION {OmittedOptional(ty.of, doc.m[key], Append(loc, key)) :
                  key \in DOMAIN doc.m}
    [] ty.k = "model" /\ doc.j = "obj" ->
         UNION {IF f \in DOMAIN doc.m
                THEN OmittedOptional(Annotations(ty.cls)[f].ty, doc.m[f], Append(loc, f))
                ELSE IF Annotations(ty.cls)[f].dflt THEN {Append(loc, f)} ELSE {} :
                  f \in DOMAIN Annotations(ty.cls)}
    [] OTHER -> {}

\* In the result val of validating doc, every field declared with a default
\* that doc omits holds None.
RECURSIVE OmittedAreNone(_, _, _)
OmittedAreNone(ty, doc, val) ==
  CASE ty.k = "opt" /\ doc.j # "null" -> OmittedAreNone(ty.of, doc, val)
    [] ty.k = "list" /\ doc.j = "arr" ->
         \A i \in DOMAIN doc.a : OmittedAreNone(ty.of, doc.a[i], val.l[i])
    [] ty.k = "dict" /\ doc.j = "obj" ->
         \A key \in DOMAIN doc.m : OmittedAreNone(ty.of, doc.m[key], val.d[key])
    [] ty.k = "model" /\ doc.j = "obj" ->
         \A f \in DOMAIN Annotations(ty.cls) :
           IF f \in DOMAIN doc.m
           THEN f \in DOMAIN val.o =>
                  OmittedAreNone(Annotations(ty.cls)[f].ty, doc.m[f], val.o[f])
           ELSE Annotations(ty.cls)[f].dflt =>
                  (f \in DOMAIN val.o /\ val.o[f] = PNone)
    [] OTHER -> TRUE

\* C15: a 2xx body that omits a field declared optional (TokenMetadata.address,
\* Epoch.epochId) gets no Validation error for that field, and where the body
\* validates the resulting record holds None for the field; a body that is
\* the documented one but for such an omission validates.
C15_OmittedOptionalFieldIsNone ==
  (pc = "done" /\ Answered /\ StatusCode = 200 /\ IsJson(Body)) =>
    LET omitted == OmittedOptional(ReturnAnnotation(tool), Body, <<>>)
    IN /\ omitted \cap outcome.errs = {}
       /\ outcome.kind = "value" =>
            OmittedAreNone(ReturnAnnotation(tool), Body, Get(outcome.value))
       /\ (\E loc \in omitted : Body = DropAt(Fixture(tool), loc)) =>
            outcome.kind = "value"

\* C15 witness: an eth price body whose epoch record has no epochId was
\* returned with epochId None.
C15_Witness ==
  /\ pc = "done"
  /\ tool = "get_ethprice"
  /\ Answered
  /\ StatusCode = 200
  /\ Body = DropAt(Fixture("get_ethprice"), <<"epoch", "epochId">>)
  /\ outcome.kind = "value"
  /\ Get(outcome.value).o.epoch.o.epochId = PNone

\* The top-level kind of body each of the three tools of C16 documents.
TopLevelKind ==
  CASE tool = "get_token_price_all" -> "obj"
    [] tool = "get_finalized_cid_for_project_id_epoch_id" -> "str"
    [] tool = "get_pool_trades" -> "arr"

\* A body of the documented shape: a map to numbers or nulls, a string, a
\* list of records.
IsDocumentedShape(doc) ==
  CASE tool = "get_token_price_all" ->
         doc.j = "obj" /\ \A key \in DOMAIN doc.m : doc.m[key].j \in {"num", "null"}
    [] tool = "get_finalized_cid_for_project_id_epoch_id" -> doc.j = "str"
    [] tool = "get_pool_trades" ->
         doc.j = "arr" /\ \A i \in DOMAIN doc.a : doc.a[i].j = "obj"

\* C16: token-price-all returns a value for a map from pool address to a
\* number or null, finalized-CID for a bare string, pool-trades for a bare
\* list of records; each fails with a Validation error for a body of
\* another top-level kind.
C16_TopLevelNonRecordBodies ==
  (pc = "done" /\ Answered /\ StatusCode = 200 /\ IsJson(Body)
     /\ tool \in {"get_token_price_all", "get_finalized_cid_for_project_id_epoch_id",
                  "get_pool_trades"}) =>
    /\ IsDocumentedShape(Body) =>
         /\ outcome.kind = "value"
         /\ Preserved(ReturnAnnotation(tool), JsonLoads(Body), Get(outcome.value))
    /\ Body.j # TopLevelKind =>
         /\ outcome.kind = "Validation"
         /\ outcome.exc = "ValidationError"
         /\ <<>> \in outcome.errs

\* C16 witness: token-price-all returned a map in which one pool's price is
\* None.
C16_Witness ==
  /\ pc = "done"
  /\ tool = "get_token_price_all"
  /\ Answered
  /\ StatusCode = 200
  /\ Body = DObj([p1 |-> DFlt(1, 5), p2 |-> DNull])
  /\ outcome.kind = "value"
  /\ Get(outcome.value) = PDict([p1 |-> PFloat(15), p2 |-> PNone])

(***************************************************************************)
(* Process start (main.py, the `if __name__ == "__main__":` block): the    *)
(* scan of the command line, then mcp.run with the transport selected.     *)
(***************************************************************************)

\* The longest argument list.
MaxArgs == 4

\* The words of the command lines.
Flags == {"--transport", "--host", "--port"}
ArgWords == Flags \cup {"http", "sse", "0.0.0.0", "9000"}

ArgLists == UNION {[1..n -> ArgWords] : n \in 0..MaxArgs}

\* The port numbers the words spell.
PortNumbers == {80, 9000}

\* int(s): the integer a decimal string spells; None where int raises
\* ValueError.
int(s) ==
  IF \E n \in PortNumbers : ToString(n) = s
  THEN Some(CHOOSE n \in PortNumbers : ToString(n) = s)
  ELSE None

\* Mutant of mcp_run: only http runs a network transport.
mcp_run_http_only(t, h, p) ==
  IF t = "http" THEN [transport |-> "http", host |-> Some(h), port |-> Some(p)]
  ELSE RunStdio

\* Mutant of mcp_run: a transport that is neither http nor sse is run under
\* the name given.
mcp_run_as_named(t, h, p) ==
  IF t \in {"http", "sse"} THEN [transport |-> t, host |-> Some(h), port |-> Some(p)]
  ELSE [transport |-> t, host |-> None, port |-> None]

\* The mcp.run call the block ends with.
mcp_run(t, h, p) ==
  IF t = "http" THEN [transport |-> "http", host |-> Some(h), port |-> Some(p)]
  ELSE IF t = "sse" THEN [transport |-> "sse", host |-> Some(h), port |-> Some(p)]
  ELSE RunStdio

\* No tool is being invoked while the process starts.
ToolsIdle ==
  /\ pc = "idle"
  /\ tool = ""
  /\ args = NoFields
  /\ requests = <<>>
  /\ response = None
  /\ outcome = NoOutcome
  /\ open_clients = 0
  /\ cookies = {}
  /\ steps = <<>>
  /\ client = None

MainInit ==
  /\ \E env \in Environment :
       SNAPSHOTTER_CORE_API_URL = Getenv(env, "https://bds-api.powerloom.io")
  /\ ToolsIdle
  /\ argv \in ArgLists
  /\ arg_i = 0
  /\ transport = "stdio"
  /\ host = "127.0.0.1"
  /\ port = 8000
  /\ main_pc = "scan"
  /\ run = None

\* One pass of the body of `while i < len(args)`; args[i] is argv[arg_i + 1].
Scan ==
  /\ main_pc = "scan"
  /\ arg_i < Len(argv)
  /\ IF argv[arg_i + 1] = "--transport" /\ arg_i + 1 < Len(argv)
     THEN /\ transport' = argv[arg_i + 2]
          /\ arg_i' = arg_i + 2
          /\ UNCHANGED <<host, port, main_pc>>
     ELSE IF argv[arg_i + 1] = "--host" /\ arg_i + 1 < Len(argv)
     THEN /\ host' = argv[arg_i + 2]
          /\ arg_i' = arg_i + 2
          /\ UNCHANGED <<transport, port, main_pc>>
     ELSE IF argv[arg_i + 1] = "--port" /\ arg_i + 1 < Len(argv)
     THEN IF IsNone(int(argv[arg_i + 2]))
          THEN /\ main_pc' = "ValueError"
               /\ UNCHANGED <<transport, host, port, arg_i>>
          ELSE /\ port' = Get(int(argv[arg_i + 2]))
               /\ arg_i' = arg_i + 2
               /\ UNCHANGED <<transport, host, main_pc>>
     ELSE /\ arg_i' = arg_i + 1
          /\ UNCHANGED <<transport, host, port, main_pc>>
  /\ UNCHANGED <<tool_vars, argv, run>>

\* The scan is over: mcp.run with the transport selected.
Run ==
  /\ main_pc = "scan"
  /\ ~(arg_i < Len(argv))
  /\ run' = Some(mcp_run(transport, host, port))
  /\ main_pc' = "run"
  /\ UNCHANGED <<tool_vars, argv, arg_i, transport, host, port>>

MainNext == Scan \/ Run

MainSpec == MainInit /\ [][MainNext]_vars

\* An argument list made of flag and value pairs: every odd word a flag, the
\* word after it not a flag, no flag twice.
FlagPairs(av) ==
  /\ Len(av) % 2 = 0
  /\ \A k \in 1..Len(av) :
       IF k % 2 = 1 THEN av[k] \in Flags ELSE av[k] \notin Flags
  /\ \A k, l \in 1..Len(av) : (k % 2 = 1 /\ l % 2 = 1 /\ av[k] = av[l]) => k = l

\* The value such a list gives for a flag (the default where it has none).
Given(av, flag, default) ==
  IF \E k \in 1..Len(av) : k % 2 = 1 /\ av[k] = flag
  THEN av[(CHOOSE k \in 1..Len(av) : k % 2 = 1 /\ av[k] = flag) + 1]
  ELSE default

\* The --port value of such a list is a decimal integer, or there is none.
PortIsDecimal(av) ==
  \A k \in 1..Len(av) : (k % 2 = 1 /\ av[k] = "--port") => ~IsNone(int(av[k + 1]))

\* The transport the claim has process start run for such a list.
SelectedRun(av) ==
  LET t == Given(av, "--transport", "stdio")
      h == Given(av, "--host", "127.0.0.1")
      p == IF \E k \in 1..Len(av) : k % 2 = 1 /\ av[k] = "--port"
           THEN Get(int(Given(av, "--port", "")))
           ELSE 8000
  IN IF t \in {"http", "sse"}
     THEN [transport |-> t, host |-> Some(h), port |-> Some(p)]
     ELSE [transport |-> "stdio", host |-> None, port |-> None]

\* C17 (as amended): for an argument list of flag and value pairs whose
\* --port value, if any, is a decimal integer, process start runs exactly
\* one transport: stdio without host and port when --transport is absent
\* (the settings then being stdio, 127.0.0.1, 8000 by default) or names no
\* network transport, and http resp. sse with the --host and --port values
\* given, 127.0.0.1 and 8000 where omitted.  A --port value that is not a
\* decimal integer makes process start fail with ValueError before any
\* transport is run, in stdio mode too.
C17_TransportSelectedFromFlags ==
  /\ (FlagPairs(argv) /\ PortIsDecimal(argv)) =>
       /\ main_pc # "ValueError"
       /\ main_pc = "run" => run = Some(SelectedRun(argv))
       /\ (main_pc = "run" /\ argv = <<>>) =>
            transport = "stdio" /\ host = "127.0.0.1" /\ port = 8000
  /\ (FlagPairs(argv) /\ ~PortIsDecimal(argv) /\ ~ENABLED MainNext) =>
       main_pc = "ValueError" /\ run = None

\* C17 witness: --transport sse --port 9000 runs sse on 127.0.0.1:9000.
C17_Witness ==
  /\ argv = <<"--transport", "sse", "--port", "9000">>
  /\ main_pc = "run"
  /\ run = Some([transport |-> "sse", host |-> Some("127.0.0.1"), port |-> Some(9000)])

\* C17 as stated: process start always ends running exactly one transport,
\* the one the flags select, and the port has no effect where stdio is
\* selected.
C17_StartAlwaysRunsOneTransport ==
  FlagPairs(argv) =>
    /\ main_pc # "ValueError"
    /\ (main_pc = "run" /\ PortIsDecimal(argv)) => run = Some(SelectedRun(argv))

\* The two tools of C18 and the field names their bodies carry, with the
\* block number field under the name given.
EpochInfoTools == {"get_epoch_info", "get_project_last_finalized_epoch_info"}

EpochInfoKeys(blockField) ==
  IF tool = "get_epoch_info" THEN {"timestamp", blockField, "epochEnd"}
  ELSE {"epochId", "timestamp", blockField, "epochEnd"}

\* An object with exactly the given keys, each an integer.
IsIntegerRecord(doc, keys) ==
  /\ doc.j = "obj"
  /\ DOMAIN doc.m = keys
  /\ \A key \in keys : doc.m[key].j = "num" /\ IsNone(doc.m[key].fr)

\* C18 (as amended): epoch-info validates a body with the fields timestamp,
\* blocknumber and epochEnd, and project-last-finalized-epoch a body with
\* epochId, timestamp, blocknumber and epochEnd, all integers; the block
\* number field is spelt blocknumber, and a body that carries blockNumber
\* instead fails with a Validation error naming the missing blocknumber.
C18_EpochInfoFieldNames ==
  (pc = "done" /\ tool \in EpochInfoTools /\ Answered /\ StatusCode = 200) =>
    /\ IsIntegerRecord(Body, EpochInfoKeys("blocknumber")) =>
         /\ outcome.kind = "value"
         /\ \A key \in DOMAIN Body.m :
              Get(outcome.value).o[key] = PInt(Body.m[key].w)
    /\ IsIntegerRecord(Body, EpochInfoKeys("blockNumber")) =>
         /\ outcome.kind = "Validation"
         /\ outcome.errs = {<<"blocknumber">>}

\* C18 witness: project-last-finalized-epoch returned the record of a body
\* with epochId, timestamp, blocknumber and epochEnd.
C18_Witness ==
  /\ pc = "done"
  /\ tool = "get_project_last_finalized_epoch_info"
  /\ Answered
  /\ StatusCode = 200
  /\ Body = DObj([epochId |-> DInt(4), timestamp |-> DInt(17),
                  blocknumber |-> DInt(12), epochEnd |-> DInt(19)])
  /\ outcome.kind = "value"
  /\ Get(outcome.value).o.blocknumber = PInt(12)

\* C18 as stated: a body with the fields timestamp, blockNumber, epochEnd
\* (and epochId for project-last-finalized-epoch), all integers, validates.
C18_CamelCaseBodyValidates ==
  (pc = "done" /\ tool \in EpochInfoTools /\ Answered /\ StatusCode = 200
     /\ IsIntegerRecord(Body, EpochInfoKeys("blockNumber"))) =>
    outcome.kind = "value"

\* C19: data-for-project+epoch requests /data/{epoch_id}/{project_id}/ and
\* finalized-CID requests /cid/{epoch_id}/{project_id}/ for the (project_id,
\* epoch_id) the caller passed: the epoch id segment comes first, the
\* project id segment second, and the path ends with a slash.
C19_EpochSegmentPrecedesProjectSegment ==
  (tool \in {"get_data_for_project_id_epoch_id",
             "get_finalized_cid_for_project_id_epoch_id"} /\ Requested) =>
    /\ Len(requests) = 1
    /\ RequestTarget = RequestUrl
    /\ RequestUrl =
         Url(IF tool = "get_data_for_project_id_epoch_id" THEN "/data/" ELSE "/cid/")
         \o ToString(args.epoch_id) \o "/" \o args.project_id \o "/"

\* C19 witness: data for project "1" and epoch 2 was requested at /data/2/1/.
C19_Witness ==
  /\ tool = "get_data_for_project_id_epoch_id"
  /\ Requested
  /\ args = [project_id |-> "1", epoch_id |-> 2]
  /\ RequestUrl = Url("/data/2/1/")

\* C20: the request and the outcome of an invocation are functions of its
\* tool, its arguments, the base URL and the upstream's answer alone:
\* whatever invocations were made earlier (whatever they returned or raised,
\* whatever cookies their answers set), the GET is the one the tool issues
\* for these arguments, carrying nothing of an earlier exchange, and the
\* result or error is the one this answer gives.
C20_OutcomeIndependentOfEarlierInvocations ==
  /\ Requested =>
       LET r == CallTool(tool, args, SNAPSHOTTER_CORE_API_URL)
       IN /\ requests[1].url = r.url
          /\ requests[1].params = r.params
          /\ requests[1].cookies = {}
  /\ pc = "done" =>
       outcome = AloneOutcome(tool, args, SNAPSHOTTER_CORE_API_URL, response)

\* C20 witness: an earlier answer set a cookie; this invocation, whose own
\* answer set none, sent its GET without it and returned a value.
C20_Witness ==
  /\ pc = "done"
  /\ cookies = {"session"}
  /\ Answered
  /\ Get(response).set_cookie = {}
  /\ requests[1].cookies = {}
  /\ outcome.kind = "value"

\* The tools whose response class is a RootModel.
RootModelTools ==
  {"get_token_base_snapshots", "get_token_price_all", "get_pool_trades",
   "get_finalized_cid_for_project_id_epoch_id"}

\* C21: for every tool with a declared response model, the RootModel
\* responses included, validating the value a successful invocation returned
\* against that same model again succeeds and yields an equal value.
C21_ValidationIdempotentOnItsOutput ==
  (pc = "done" /\ outcome.kind = "value" /\ ~IsNone(ResponseModel(tool))) =>
    LET again == model_validate(Get(ResponseModel(tool)), Get(outcome.value))
    IN again.errs = {} /\ again.val = Get(outcome.value)

\* C21 witness: token-price-all (a RootModel response) returned a map with a
\* price read from a digit string and a None, and validating that map again
\* gives the same map.
C21_Witness ==
  /\ pc = "done"
  /\ tool \in RootModelTools
  /\ Body = DObj([p1 |-> DStr("7"), p2 |-> DNull])
  /\ outcome.kind = "value"
  /\ Get(outcome.value) = PDict([p1 |-> PFloat(70), p2 |-> PNone])
  /\ model_validate(GetTokenPriceAllResponse, Get(outcome.value)).val
       = Get(outcome.value)

\* The steps of a helper in the order its body has them.
StepOrder ==
  <<"build_url", "get", "raise_for_status", "json", "model_validate", "return">>

Position(name) == CHOOSE i \in DOMAIN StepOrder : StepOrder[i] = name

\* The steps s were performed in the order of StepOrder, none of them twice.
InStepOrder(s) ==
  /\ \A i \in DOMAIN s : \E k \in DOMAIN StepOrder : StepOrder[k] = s[i]
  /\ \A i, j \in DOMAIN s : i < j => Position(s[i]) < Position(s[j])

\* C22: within one invocation the steps occur in the fixed order build URL,
\* issue GET, check status, parse JSON, validate, return; for a response that
\* is not 2xx the invocation ends at the status check, its body neither
\* parsed nor validated, with an HttpStatus error and never a Validation
\* error or a value, whatever the body is.
C22_StepsInFixedOrderNon2xxNeverParsed ==
  /\ InStepOrder(steps)
  /\ (pc = "done" /\ Answered /\ ~(StatusCode >= 200 /\ StatusCode <= 299)) =>
       /\ steps = <<"build_url", "get", "raise_for_status">>
       /\ outcome.kind = "HttpStatus"
       /\ outcome.exc = "HTTPStatusError"
       /\ IsNone(outcome.value)
       /\ outcome.errs = {}

\* C22 witness: a 404 whose body would match the schema of the tool ended at
\* the status check with an HttpStatus error.
C22_Witness ==
  /\ pc = "done"
  /\ tool = "get_pool_metadata"
  /\ Answered
  /\ StatusCode = 404
  /\ Body = FxPoolMetadata
  /\ steps = <<"build_url", "get", "raise_for_status">>
  /\ outcome.kind = "HttpStatus"

\* The two tools whose response holds a map with typed entries, the field
\* that holds the map and the type of its entries.
TypedMapTools == {"get_token_pools", "get_all_trades_snapshot"}

MapField == IF tool = "get_token_pools" THEN "pools" ELSE "tradeData"

EntryType ==
  IF tool = "get_token_pools" THEN TModel("PoolMetadata")
  ELSE TModel("GetTradesSnapshotResponse")

\* The body carries a map in that field.
HasEntryMap(doc) ==
  doc.j = "obj" /\ MapField \in DOMAIN doc.m /\ doc.m[MapField].j = "obj"

\* The keys of the entries of the body's map that fail validation on their
\* own.
FailingEntries(doc) ==
  {key \in DOMAIN doc.m[MapField].m :
     ValidationErrors(EntryType, JsonLoads(doc.m[MapField].m[key]), <<>>) # {}}

\* C23: for token pools (pool to PoolMetadata) and the all-trades snapshot
\* (pool to trades snapshot record), a 2xx body with an entry that fails
\* validation makes the whole invocation fail with a Validation error that
\* names the entry, and a result that is returned holds every entry of the
\* body: no result holds the valid entries only.
C23_NoPartialMapResult ==
  (pc = "done" /\ tool \in TypedMapTools /\ Answered /\ StatusCode = 200
     /\ IsJson(Body) /\ HasEntryMap(Body)) =>
    /\ \A key \in FailingEntries(Body) :
         /\ outcome.kind = "Validation"
         /\ outcome.exc = "ValidationError"
         /\ IsNone(outcome.value)
         /\ \E loc \in outcome.errs :
              Len(loc) >= 2 /\ loc[1] = MapField /\ loc[2] = key
    /\ outcome.kind = "value" =>
         DOMAIN Get(outcome.value).o[MapField].d = DOMAIN Body.m[MapField].m

\* C23 witness: token pools answered with two pools, the second without its
\* fee, failed as a whole with the error at pools.p2.fee.
C23_Witness ==
  /\ pc = "done"
  /\ tool = "get_token_pools"
  /\ Answered
  /\ StatusCode = 200
  /\ Body = DObj([pools |-> DObj([p1 |-> FxPoolMetadata,
                                  p2 |-> RemoveKey(FxPoolMetadata, "fee")])])
  /\ outcome.kind = "Validation"
  /\ outcome.errs = {<<"pools", "p2", "fee">>}

\* The tools whose response embeds an epoch record.
EpochRecordTools == {"get_ethprice", "get_base_snapshot", "get_trades_snapshot"}

\* C24: the current-epoch tool requires begin, end and epochId, so a
\* /current_epoch body without epochId (or without begin, or end) fails with
\* a Validation error naming the field; the epoch record embedded in the eth
\* price, base snapshot and trades snapshot responses may omit epochId, and a
\* body that is the documented one but for that omission validates, with
\* epochId None.
C24_EpochIdRequiredForCurrentEpochOnly ==
  (pc = "done" /\ Answered /\ StatusCode = 200 /\ IsJson(Body)
     /\ Body.j = "obj") =>
    /\ tool = "get_current_epoch_data" =>
         \A f \in {"begin", "end", "epochId"} :
           f \notin DOMAIN Body.m =>
             /\ outcome.kind = "Validation"
             /\ outcome.exc = "ValidationError"
             /\ <<f>> \in outcome.errs
    /\ (tool \in EpochRecordTools
          /\ Body = DropAt(Fixture(tool), <<"epoch", "epochId">>)) =>
         /\ outcome.kind = "value"
         /\ Get(outcome.value).o.epoch.o =
              [begin |-> PInt(10), end |-> PInt(19), epochId |-> PNone]

\* C24 witness: a /current_epoch body with begin and end only failed with
\* the error at epochId.
C24_Witness ==
  /\ pc = "done"
  /\ tool = "get_current_epoch_data"
  /\ Answered
  /\ StatusCode = 200
  /\ Body = DObj([begin |-> DInt(10), end |-> DInt(19)])
  /\ outcome.kind = "Validation"
  /\ outcome.errs = {<<"epochId">>}

\* The ten attributes the declaration of Log lists.
LogAttributes ==
  {"_score", "address", "blockNumber", "data", "eventName", "filterName",
   "logIndex", "topics", "transactionHash", "transactionIndex"}

\* The body is a trades snapshot whose first trade carries a log record.
HasTradeLog(doc) ==
  /\ doc.j = "obj"
  /\ "trades" \in DOMAIN doc.m
  /\ doc.m.trades.j = "arr"
  /\ doc.m.trades.a # <<>>
  /\ doc.m.trades.a[1].j = "obj"
  /\ "log" \in DOMAIN doc.m.trades.a[1].m
  /\ doc.m.trades.a[1].m.log.j = "obj"

TradeLog(doc) == doc.m.trades.a[1].m.log

\* C25: a trade's log record has the ten attributes of its declaration, each
\* required: a trades-snapshot body whose log omits any one of them, _score
\* included, fails validation, and the log of a returned value carries the
\* _score of the body.
C25_LogAttributesRequired ==
  (pc = "done" /\ tool = "get_trades_snapshot" /\ Answered /\ StatusCode = 200
     /\ IsJson(Body) /\ HasTradeLog(Body)) =>
    /\ DOMAIN Log = LogAttributes
    /\ \A f \in LogAttributes :
         f \notin DOMAIN TradeLog(Body).m =>
           /\ outcome.kind = "Validation"
           /\ <<"trades", "0", "log", f>> \in outcome.errs
    /\ outcome.kind = "value" =>
         LET log == Get(outcome.value).o.trades.l[1].o.log.o
         IN /\ "_score" \in DOMAIN log
            /\ log["_score"] = JsonLoads(TradeLog(Body).m["_score"])

\* C26: each registered tool delegates unchanged to its helper: for every
\* tool and all arguments, the tool issues the request the helper issues when
\* called with the same arguments by name (none swapped, no default changed),
\* and has the result or the error the helper has (none caught or
\* translated).
C26_ToolDelegatesToHelperUnchanged ==
  /\ Requested =>
       \A r \in {CallHelper(tool, args, SNAPSHOTTER_CORE_API_URL)} :
          /\ ~r.raised
          /\ requests[1].url = r.url
          /\ requests[1].params = r.params
          /\ RequestTarget = merge_url(URL(r), r.params)
  /\ pc = "done" =>
       outcome =
         IF CallHelper(tool, args, SNAPSHOTTER_CORE_API_URL).raised
         THEN Outcome("InvalidArgument", "ValueError", None, None, None, {})
         ELSE HandleResponse(ResponseModel(tool), Get(response))

\* C26 witness: the price series tool has requested the helper's URL, token
\* address before pool address, and returned the helper's value.
C26_Witness ==
  /\ pc = "done"
  /\ tool = "get_token_price_series"
  /\ args = [token_address |-> "0xT", pool_address |-> "0xP",
             time_interval |-> 3600, step_seconds |-> 60]
  /\ RequestUrl = Url("/timeSeries/0xT/0xP/3600/60")
  /\ RequestUrl =
       _get_token_price_series(SNAPSHOTTER_CORE_API_URL, "0xT", "0xP", 3600, 60).url
  /\ outcome.kind = "value"

\* The tasks whose invocation is in progress: inside the `async with` block.
InProgress == {p \in Tasks : pc[p] \in {"entered", "awaiting", "responded"}}

\* The ways an invocation ends.
ExitPaths == {"value", "HttpStatus", "Validation", "Transport", "InvalidArgument"}

\* C27: every invocation opens its own HTTP client and closes it on every
\* exit path (value, HttpStatus, Validation, transport error, and the
\* pool-price InvalidArgument path, which opens and closes the client without
\* any request): the clients open are those of the invocations in progress,
\* none is open when no invocation is in progress, and no client is used by
\* two invocations.
C27_OwnClientClosedOnEveryExit ==
  /\ open_clients = Cardinality(InProgress)
  /\ (InProgress = {}) => open_clients = 0
  /\ \A p \in Tasks :
       /\ p \in InProgress <=> ~IsNone(client[p])
       /\ pc[p] = "done" => outcome[p].kind \in ExitPaths /\ IsNone(client[p])
       /\ (pc[p] = "done" /\ outcome[p].kind = "InvalidArgument") =>
            requests[p] = <<>>
  /\ \A p, q \in InProgress : p # q => client[p] # client[q]
  /\ \A p, q \in Tasks :
       p # q => \A i \in DOMAIN requests[p] : \A j \in DOMAIN requests[q] :
                  requests[p][i].client # requests[q][j].client

\* C27 witness: the pool-price call of task 1 has ended with InvalidArgument,
\* its client opened and closed without a request, while task 2 awaits the
\* answer to the GET it issued with its own client, the only one open.
C27_Witness ==
  /\ pc[1] = "done"
  /\ tool[1] = "get_token_price_pool"
  /\ outcome[1].kind = "InvalidArgument"
  /\ requests[1] = <<>>
  /\ IsNone(client[1])
  /\ pc[2] = "awaiting"
  /\ client[2] = Some(AsyncClient(2))
  /\ requests[2][1].client = 2
  /\ open_clients = 1

\* Two invocations in progress at once, each through a client of its own.
C27_TwoClientsOpen ==
  /\ InProgress = {1, 2}
  /\ pc[1] = "awaiting" /\ pc[2] = "awaiting"
  /\ requests[1][1].client # requests[2][1].client
  /\ open_clients = 2

\* An invocation has ended with a validation error, its client closed.
C27_ValidationExit ==
  \E p \in Tasks : pc[p] = "done" /\ outcome[p].kind = "Validation" /\ IsNone(client[p])

(***************************************************************************)
(* The URL variants over arbitrary address strings.  The address           *)
(* parameters are annotated str and the helpers put them into the f-string *)
(* as they are, so UrlSpec runs the tools that have a short and a long URL *)
(* variant with addresses that contain "/" or are all digits as well.      *)
(***************************************************************************)

\* The tools whose helper chooses between two URLs by its block_number.
VariantTools ==
  {"get_ethprice", "get_token_price_pool", "get_base_snapshot",
   "get_trades_snapshot", "get_all_trades_snapshot", "get_token_price_all"}

\* Address strings with no "/" in them, and address strings of any form.
PlainAddresses == {"0xP", "1"}
AddressStrings == PlainAddresses \cup {"0xP/1"}

\* The arguments of the calls of a variant tool with addresses from S.
VariantArgsOver(t, S) ==
  CASE t \in {"get_ethprice", "get_all_trades_snapshot"} ->
         [block_number : OptBlocks]
    [] t = "get_token_price_pool" ->
         [token_address : S, pool_address : {None} \cup {Some(a) : a \in S},
          block_number : OptBlocks]
    [] t \in {"get_base_snapshot", "get_trades_snapshot"} ->
         [pool_address : S, block_number : OptBlocks]
    [] t = "get_token_price_all" ->
         [token_address : S, block_number : OptBlocks]

VariantArgs(t) == VariantArgsOver(t, AddressStrings)

\* A caller invokes a variant tool with any address strings.
InvokeVariant ==
  /\ pc = "idle"
  /\ \E t \in VariantTools : \E a \in VariantArgs(t) : tool' = t /\ args' = a
  /\ pc' = "entered"
  /\ open_clients' = open_clients + 1
  /\ client' = Some(AsyncClient(1))
  /\ UNCHANGED <<main_vars, cookies, steps, SNAPSHOTTER_CORE_API_URL, requests, response,
               outcome>>

UrlNext == InvokeVariant \/ Send \/ Respond \/ Complete \/ Return

UrlSpec == Init /\ [][UrlNext]_vars

\* The calls of tool t with a block number, among the calls in A, that request
\* the URL url.
WithBlockCalls(t, A, url) ==
  {a \in A : /\ ~IsNone(a.block_number)
             /\ LET r == CallTool(t, a, SNAPSHOTTER_CORE_API_URL)
                IN ~r.raised /\ r.url = url}

\* C28: for every tool with a short and a long URL variant the two variants
\* are disjoint over all argument values: the URL requested by a call
\* without a block number is the URL of no call with a block number, for any
\* string address arguments.
C28_VariantsDisjoint ==
  (Requested /\ tool \in VariantTools /\ IsNone(args.block_number)) =>
    WithBlockCalls(tool, VariantArgs(tool), RequestUrl) = {}

\* The same with block number 0 set aside: violated still, by an address
\* that contains "/".
C28_VariantsDisjointBlockZeroAside ==
  (Requested /\ tool \in VariantTools /\ IsNone(args.block_number)) =>
    \A a \in WithBlockCalls(tool, VariantArgs(tool), RequestUrl) :
      a.block_number = Some(0)

\* The same with addresses that contain "/" set aside: violated still, by
\* block number 0.
C28_VariantsDisjointSlashAside ==
  (Requested /\ tool \in VariantTools /\ IsNone(args.block_number)
     /\ args \in VariantArgsOver(tool, PlainAddresses)) =>
    WithBlockCalls(tool, VariantArgsOver(tool, PlainAddresses), RequestUrl) = {}

\* With both set aside the variants are disjoint: a call without a block
\* number and with addresses free of "/" shares its URL with no call that has
\* a block number other than 0 and addresses free of "/".
C28_VariantsDisjointForPlainAddressesAndBlocksFrom1 ==
  (Requested /\ tool \in VariantTools /\ IsNone(args.block_number)
     /\ args \in VariantArgsOver(tool, PlainAddresses)) =>
    \A a \in WithBlockCalls(tool, VariantArgsOver(tool, PlainAddresses), RequestUrl) :
      a.block_number = Some(0)

\* The base snapshot of pool "0xP/1" without a block number has requested
\* the URL of the base snapshot of pool "0xP" at block 1.
C28_SlashCollision ==
  /\ Requested
  /\ tool = "get_base_snapshot"
  /\ args = [pool_address |-> "0xP/1", block_number |-> None]
  /\ RequestUrl =
       _get_base_snapshot(SNAPSHOTTER_CORE_API_URL, "0xP", Some(1)).url

(***************************************************************************)
(* The URLs of the tools whose path has no optional segment, over argument *)
(* strings of any form.  PathSpec starts inside a call of such a tool,     *)
(* its arguments drawn from strings that may hold "/" and ".." components, *)
(* and lets the helper build its URL and issue its GET.                    *)
(***************************************************************************)

\* The tools whose helper has one f-string for its URL.
FixedTools == Tools \ VariantTools

\* Pool and project arguments as any caller may give them.
PoolStrings == Pools \cup {"../tradeVolumeAllPools/0xT"}
ProjectStrings == Projects \cup {"../../cid/1/1"}

\* The arguments of the calls of a fixed-path tool, with pools from P and
\* projects from Q.
FixedArgsOver(t, P, Q) ==
  CASE t = "get_pool_metadata" -> [pool_address : P]
    [] t = "get_trade_volume_agg" -> [pool_address : P, time_interval : Intervals]
    [] t = "get_pool_trades" ->
         [pool_address : P, start_timestamp : {1, 2}, end_timestamp : {2}]
    [] t = "get_token_price_series" ->
         [token_address : Tokens, pool_address : P,
          time_interval : Intervals, step_seconds : {60}]
    [] t = "get_project_last_finalized_epoch_info" -> [project_id : Q]
    [] t \in {"get_data_for_project_id_epoch_id",
              "get_finalized_cid_for_project_id_epoch_id"} ->
         [project_id : Q, epoch_id : Blocks]
    [] OTHER -> Args(t)

FixedArgs(t) == FixedArgsOver(t, PoolStrings, ProjectStrings)

\* A call of a fixed-path tool has entered its `async with`.
PathInit ==
  /\ \E env \in Environment :
       SNAPSHOTTER_CORE_API_URL = Getenv(env, "https://bds-api.powerloom.io")
  /\ StartedWithoutFlags
  /\ pc = "entered"
  /\ \E t \in FixedTools : \E a \in FixedArgs(t) : tool = t /\ args = a
  /\ requests = <<>>
  /\ response = None
  /\ outcome = NoOutcome
  /\ open_clients = 1
  /\ cookies = {}
  /\ steps = <<>>
  /\ client = Some(AsyncClient(1))

PathSpec == PathInit /\ [][Send]_vars

\* The calls of fixed-path tools other than the one invoked, among those
\* with pools from P and projects from Q, whose GET goes to the URL target.
OtherToolCalls(P, Q, target) ==
  {c \in UNION {{[tool |-> t, args |-> a] : a \in FixedArgsOver(t, P, Q)} :
                  t \in FixedTools \ {tool}} :
     LET r == CallTool(c.tool, c.args, SNAPSHOTTER_CORE_API_URL)
     IN merge_url(URL(r), r.params) = target}

\* C29: among the tools whose paths take no optional segment, distinct
\* tools never request the same URL, for any arguments: the URL the GET of
\* the tool invoked goes to is the URL of no call of another such tool (the
\* trade volume of one pool and of all pools, the data and the finalized CID
\* of a project and epoch among them).
C29_FixedPathToolsRequestDistinctUrls ==
  (Requested /\ tool \in FixedTools) =>
    OtherToolCalls(PoolStrings, ProjectStrings, RequestTarget) = {}

\* The URL strings the helpers pass to client.get are distinct for any
\* arguments.
C29_UrlStringsDistinct ==
  (Requested /\ tool \in FixedTools) =>
    \A t \in FixedTools \ {tool} : \A a \in FixedArgs(t) :
      CallTool(t, a, SNAPSHOTTER_CORE_API_URL).url # RequestUrl

\* For arguments without ".." components distinct tools request distinct
\* URLs.
C29_DistinctWithoutDotSegments ==
  (Requested /\ tool \in FixedTools /\ args \in Args(tool)) =>
    OtherToolCalls(Pools, Projects, RequestTarget) = {}

\* The trade volume of pool "../tradeVolumeAllPools/0xT" has been requested
\* at the URL of the trade volume of token "0xT" over all pools.
C29_DotSegmentCollision ==
  /\ Requested
  /\ tool = "get_trade_volume_agg"
  /\ args = [pool_address |-> "../tradeVolumeAllPools/0xT", time_interval |-> 3600]
  /\ RequestUrl = Url("/tradeVolume/../tradeVolumeAllPools/0xT/3600")
  /\ RequestTarget = Url("/tradeVolumeAllPools/0xT/3600")
  /\ RequestTarget =
       _get_trade_volume_agg_all_pools(SNAPSHOTTER_CORE_API_URL, "0xT", 3600).url

\* The data of project "../../cid/1/1" has been requested at the URL of the
\* finalized CID of project "1" at epoch 1.
C29_DataCidCollision ==
  /\ Requested
  /\ tool = "get_data_for_project_id_epoch_id"
  /\ args.project_id = "../../cid/1/1"
  /\ RequestTarget =
       _get_finalized_cid_for_project_id_epoch_id(SNAPSHOTTER_CORE_API_URL, "1", 1).url

\* The interpreter runs the block to its end: a step that can be taken is
\* taken.
MainFairness == WF_vars(MainNext)

MainFairSpec == MainInit /\ [][MainNext]_vars /\ MainFairness

\* The positions (from 1) of the words of av at which a pass of the scan
\* starts, from position k on: after a flag that has a word behind it the
\* next pass starts two words on, after any other word one word on.
RECURSIVE ScanPositions(_, _)
ScanPositions(av, k) ==
  IF k > Len(av) THEN {}
  ELSE {k} \cup ScanPositions(av, IF av[k] \in Flags /\ k < Len(av)
                                  THEN k + 2 ELSE k + 1)

\* The occurrences of a flag in av: the positions where the scan meets it
\* with a value behind it.
Occurrences(av, flag) ==
  {k \in ScanPositions(av, 1) : av[k] = flag /\ k < Len(av)}

\* The value of the last occurrence of a flag in av, the default where it
\* has no occurrence.
LastValue(av, flag, default) ==
  IF Occurrences(av, flag) = {} THEN default
  ELSE av[(CHOOSE k \in Occurrences(av, flag) :
             \A l \in Occurrences(av, flag) : l <= k) + 1]

\* The scan is over: it has reached the end of the list, or int() has raised.
ScanOver == main_pc \in {"run", "ValueError"}

\* One step of process start, as the claim has it: a pass of the scan moves
\* the index on by 1 or 2 and reads no word behind the last (two words on
\* only where the flag's value is there); a flag that is the last word
\* changes no setting; a pass leaves the index alone only where int() raises
\* on the word after --port; the step after the scan runs the transport.
ScanStep ==
  \/ /\ main_pc = "scan" /\ main_pc' = "scan"
     /\ arg_i' - arg_i \in {1, 2}
     /\ arg_i' <= Len(argv)
     /\ arg_i' = arg_i + 1 => UNCHANGED <<transport, host, port>>
     /\ (argv[arg_i + 1] \in Flags /\ arg_i + 1 = Len(argv)) =>
          arg_i' = arg_i + 1
  \/ /\ main_pc = "scan" /\ main_pc' = "ValueError"
     /\ arg_i + 2 <= Len(argv)
     /\ argv[arg_i + 1] = "--port" /\ IsNone(int(argv[arg_i + 2]))
     /\ UNCHANGED <<arg_i, transport, host, port, run>>
  \/ /\ main_pc = "scan" /\ main_pc' = "run"
     /\ arg_i = Len(argv)
     /\ UNCHANGED <<arg_i, transport, host, port>>

\* Where process start has got to its mcp.run call: the settings are those
\* of the last occurrence of each flag (the defaults for a flag without
\* occurrence, a flag that is the last word included), and a transport other
\* than http and sse runs stdio.
ScanResult ==
  /\ arg_i \in 0..Len(argv)
  /\ main_pc = "run" =>
       /\ transport = LastValue(argv, "--transport", "stdio")
       /\ host = LastValue(argv, "--host", "127.0.0.1")
       /\ port = IF Occurrences(argv, "--port") = {} THEN 8000
                 ELSE Get(int(LastValue(argv, "--port", "")))
       /\ transport \notin {"http", "sse"} => run = Some(RunStdio)
       /\ transport \in {"http", "sse"} =>
            run = Some([transport |-> transport, host |-> Some(host),
                        port |-> Some(port)])
  /\ main_pc = "ValueError" =>
       /\ run = None
       /\ \E k \in Occurrences(argv, "--port") : IsNone(int(argv[k + 1]))
  /\ main_pc = "run" =>
       \A k \in Occurrences(argv, "--port") : ~IsNone(int(argv[k + 1]))

\* C30 (as amended): the command-line scan terminates for every argument
\* list, at the end of the list or with the ValueError int() raises on a
\* --port value that is no decimal integer; each pass that completes moves
\* the index on by 1 or 2 and none reads past the end; where the scan
\* reaches the end of the list the last occurrence of a repeated flag wins,
\* a flag that is the final argument leaves its setting unchanged, and a
\* --transport value other than http or sse starts the stdio transport;
\* where int() raises no transport is started.
C30_ScanTerminatesLastOccurrenceWins ==
  /\ []ScanResult
  /\ [][ScanStep]_vars
  /\ <>ScanOver

\* C30 witness: --transport given twice, the second time with a value that
\* is neither http nor sse: the scan has ended in two passes of two words,
\* the last occurrence has won and stdio runs.
C30_Witness ==
  /\ argv = <<"--transport", "http", "--transport", "9000">>
  /\ main_pc = "run"
  /\ arg_i = 4
  /\ transport = "9000"
  /\ run = Some(RunStdio)

\* --host as the final argument, without a value: the host is the default.
C30_WitnessTrailingFlag ==
  /\ argv = <<"--transport", "sse", "--host">>
  /\ main_pc = "run"
  /\ host = "127.0.0.1"
  /\ run = Some([transport |-> "sse", host |-> Some("127.0.0.1"), port |-> Some(8000)])

\* C30 as stated: whenever process start has ended, a --transport value
\* other than http or sse has started the stdio transport (and the last
\* occurrence of each flag has won).
C30_ScanAlwaysEndsInATransport ==
  ~ENABLED MainNext =>
    /\ LastValue(argv, "--transport", "stdio") \notin {"http", "sse"} =>
         run = Some(RunStdio)
    /\ transport = LastValue(argv, "--transport", "stdio")
    /\ host = LastValue(argv, "--host", "127.0.0.1")

====
